---------------------------- MODULE Spec2Model ----------------------------
(***************************************************************************)
(* Model of the repository scanner (package collect, package files):       *)
(* the directory walk with its exclusion rules, the bounded worker pool    *)
(* that classifies every candidate file and merges the result into the     *)
(* shared Summary under one mutex, and the single-threaded finalize phase  *)
(* (coverage consolidation, pruned tree, sorting).                         *)
(*                                                                         *)
(* Text is modelled as a sequence of one-character strings, so that the    *)
(* suffix, base-name, glob and ordering functions are computed the way the *)
(* Go code computes them.                                                  *)
(***************************************************************************)
EXTENDS Integers, Sequences, FiniteSets, TLC

(***************************************************************************)
(* Bounds of the model.                                                    *)
(***************************************************************************)
\* largest number of files of one scanned tree
MaxFiles == 3
\* largest configured Threads value that is tried
MaxThreads == 2
\* runtime.NumCPU() of the machine the scan runs on
NumCPU == 2
\* cfg.MaxFileBytes of the modelled runs
MaxFileBytes == 12

(***************************************************************************)
(* Characters and strings (package strings, byte order of Go strings).     *)
(***************************************************************************)
\* the characters of the model in ascending byte order
ByteOrder ==
  <<"\n", " ", "#", "*", "-", ".", "/", "0", "1", "2", "3", "4", "5", "6",
    "7", "8", "9", ":", "=", "?",
    "A", "B", "C", "D", "E", "F", "G", "H", "I", "J", "K", "L", "M", "N",
    "O", "P", "Q", "R", "S", "T", "U", "V", "W", "X", "Y", "Z", "_",
    "a", "b", "c", "d", "e", "f", "g", "h", "i", "j", "k", "l", "m", "n",
    "o", "p", "q", "r", "s", "t", "u", "v", "w", "x", "y", "z">>

CharRank(c) == CHOOSE i \in 1..Len(ByteOrder) : ByteOrder[i] = c

UpperChars ==
  <<"A", "B", "C", "D", "E", "F", "G", "H", "I", "J", "K", "L", "M", "N",
    "O", "P", "Q", "R", "S", "T", "U", "V", "W", "X", "Y", "Z">>

LowerChars ==
  <<"a", "b", "c", "d", "e", "f", "g", "h", "i", "j", "k", "l", "m", "n",
    "o", "p", "q", "r", "s", "t", "u", "v", "w", "x", "y", "z">>

\* unicode.ToLower on one ASCII character
LowerChar(c) ==
  IF \E i \in 1..Len(UpperChars) : UpperChars[i] = c
    THEN LowerChars[CHOOSE i \in 1..Len(UpperChars) : UpperChars[i] = c]
    ELSE c

\* strings.ToLower
ToLower(s) == [i \in 1..Len(s) |-> LowerChar(s[i])]

\* s[n:] and s[:n] of Go, n counted from 0
Drop(s, n) == SubSeq(s, n + 1, Len(s))
Take(s, n) == SubSeq(s, 1, n)

\* strings.HasPrefix
HasPrefix(s, pre) == Len(pre) <= Len(s) /\ Take(s, Len(pre)) = pre

\* strings.HasSuffix
HasSuffix(s, suf) == Len(suf) <= Len(s) /\ Drop(s, Len(s) - Len(suf)) = suf

\* strings.Contains
Contains(s, sub) ==
  \E i \in 0..(Len(s) - Len(sub)) : SubSeq(s, i + 1, i + Len(sub)) = sub

\* strings.TrimSuffix
TrimSuffix(s, suf) == IF HasSuffix(s, suf) THEN Take(s, Len(s) - Len(suf)) ELSE s

\* the white space strings.TrimSpace removes, among the characters of the model
IsSpace(c) == c \in {" ", "\n", "\r", "\t"}

\* strings.TrimSpace
TrimSpace(s) ==
  IF \A i \in 1..Len(s) : IsSpace(s[i]) THEN <<>>
  ELSE LET lo == CHOOSE i \in 1..Len(s) :
                   ~IsSpace(s[i]) /\ \A j \in 1..(i - 1) : IsSpace(s[j])
           hi == CHOOSE i \in 1..Len(s) :
                   ~IsSpace(s[i]) /\ \A j \in (i + 1)..Len(s) : IsSpace(s[j])
       IN  SubSeq(s, lo, hi)

\* strings.Split(s, "\n")
RECURSIVE SplitLines(_)
SplitLines(s) ==
  IF \A i \in 1..Len(s) : s[i] # "\n" THEN <<s>>
  ELSE LET k == CHOOSE i \in 1..Len(s) :
                  s[i] = "\n" /\ \A j \in 1..(i - 1) : s[j] # "\n"
       IN  <<Take(s, k - 1)>> \o SplitLines(Drop(s, k))

\* a < b for Go strings: byte-wise lexicographic order
RECURSIVE StrLess(_, _)
StrLess(a, b) ==
  IF b = <<>> THEN FALSE
  ELSE IF a = <<>> THEN TRUE
  ELSE IF a[1] # b[1] THEN CharRank(a[1]) < CharRank(b[1])
  ELSE StrLess(Tail(a), Tail(b))

\* insertion of one string into a sorted sequence of strings
RECURSIVE InsertSorted(_, _)
InsertSorted(x, s) ==
  IF s = <<>> THEN <<x>>
  ELSE IF StrLess(x, Head(s)) THEN <<x>> \o s
  ELSE <<Head(s)>> \o InsertSorted(x, Tail(s))

\* sort.Strings
RECURSIVE SortStrings(_)
SortStrings(s) ==
  IF s = <<>> THEN <<>> ELSE InsertSorted(Head(s), SortStrings(Tail(s)))

(***************************************************************************)
(* Paths (package path/filepath, on a system whose separator is "/").      *)
(***************************************************************************)
\* the index of the last "/" of s, 0 when there is none
LastSlash(s) ==
  IF \A i \in 1..Len(s) : s[i] # "/" THEN 0
  ELSE CHOOSE i \in 1..Len(s) :
         s[i] = "/" /\ \A j \in (i + 1)..Len(s) : s[j] # "/"

RECURSIVE StripTrailingSlashes(_)
StripTrailingSlashes(s) ==
  IF s # <<>> /\ s[Len(s)] = "/" THEN StripTrailingSlashes(Take(s, Len(s) - 1))
  ELSE s

\* filepath.Base
Base(path) ==
  IF path = <<>> THEN <<".">>
  ELSE LET q == StripTrailingSlashes(path)
       IN  IF q = <<>> THEN <<"/">> ELSE Drop(q, LastSlash(q))

\* filepath.Ext: from the last dot of the last element, empty without a dot
Ext(path) ==
  LET el == Drop(path, LastSlash(path))
  IN  IF \A i \in 1..Len(el) : el[i] # "." THEN <<>>
      ELSE Drop(el, (CHOOSE i \in 1..Len(el) :
                       el[i] = "." /\ \A j \in (i + 1)..Len(el) : el[j] # ".") - 1)

\* filepath.Join of two clean paths
Join(a, b) ==
  IF a = <<>> THEN b ELSE IF b = <<>> THEN a ELSE a \o <<"/">> \o b

\* the directory part of a relative path, empty for an entry of the root
Parent(rel) == IF LastSlash(rel) = 0 THEN <<>> ELSE Take(rel, LastSlash(rel) - 1)

\* filepath.Match for patterns made of literals, "?" and "*": a star matches
\* any run of characters other than the separator
RECURSIVE Match(_, _)
Match(pattern, name) ==
  IF pattern = <<>> THEN name = <<>>
  ELSE IF Head(pattern) = "*"
    THEN \/ Match(Tail(pattern), name)
         \/ name # <<>> /\ Head(name) # "/" /\ Match(pattern, Tail(name))
  ELSE IF Head(pattern) = "?"
    THEN name # <<>> /\ Head(name) # "/" /\ Match(Tail(pattern), Tail(name))
  ELSE name # <<>> /\ Head(name) = Head(pattern)
         /\ Match(Tail(pattern), Tail(name))


(***************************************************************************)
(* More of package strings, as the extractors use it.                      *)
(***************************************************************************)
\* strings.TrimPrefix
TrimPrefix(s, pre) == IF HasPrefix(s, pre) THEN Drop(s, Len(pre)) ELSE s

\* strings.TrimLeft(s, cutset): s without its leading characters of cutset
TrimLeft(s, cutset) ==
  IF \A i \in 1..Len(s) : s[i] \in cutset THEN <<>>
  ELSE LET lo == CHOOSE i \in 1..Len(s) :
                   s[i] \notin cutset /\ \A j \in 1..(i - 1) : s[j] \in cutset
       IN  Drop(s, lo - 1)

\* strings.Trim(s, cutset): s without its leading and trailing characters
\* of cutset
Trim(s, cutset) ==
  IF \A i \in 1..Len(s) : s[i] \in cutset THEN <<>>
  ELSE LET lo == CHOOSE i \in 1..Len(s) :
                   s[i] \notin cutset /\ \A j \in 1..(i - 1) : s[j] \in cutset
           hi == CHOOSE i \in 1..Len(s) :
                   s[i] \notin cutset /\ \A j \in (i + 1)..Len(s) : s[j] \in cutset
       IN  SubSeq(s, lo, hi)

\* strings.SplitN(s, sep, 2)[0] for a one-character sep: s up to its first sep
BeforeFirst(s, sep) ==
  IF \A i \in 1..Len(s) : s[i] # sep THEN s
  ELSE LET k == CHOOSE i \in 1..Len(s) :
                  s[i] = sep /\ \A j \in 1..(i - 1) : s[j] # sep
       IN  Take(s, k - 1)

\* strings.EqualFold on the characters of the model
EqualFold(a, b) == ToLower(a) = ToLower(b)

\* strings.ReplaceAll(s, old, new) for one-character old and new
ReplaceAll(s, old, new) == [i \in 1..Len(s) |-> IF s[i] = old THEN new ELSE s[i]]

\* strings.Join(parts, sep)
RECURSIVE JoinStrings(_, _)
JoinStrings(parts, sep) ==
  IF parts = <<>> THEN <<>>
  ELSE IF Len(parts) = 1 THEN parts[1]
  ELSE parts[1] \o sep \o JoinStrings(Tail(parts), sep)

(***************************************************************************)
(* The scanned trees.  A tree is a set of files taken from FileTable; its  *)
(* directories are the proper prefixes of the file paths.  data is the     *)
(* content of the file, ok is FALSE for a file that cannot be opened, and  *)
(* ignored is TRUE for a path the .gitignore files of the tree match.      *)
(***************************************************************************)
File(path, data, ok, ignored) ==
  [path |-> path, data |-> data, ok |-> ok, ignored |-> ignored]

FileTable ==
  << File(<<"a", ".", "p", "r", "o", "t", "o">>, <<"p", "a", "c", "k", "a", "g", "e", " ", "a", ";", "\n">>, TRUE, FALSE),
     File(<<"b", ".", "p", "r", "o", "t", "o">>, <<"p", "a", "c", "k", "a", "g", "e", " ", "b", ";", "\n">>, TRUE, FALSE),
     File(<<"g", "o", ".", "m", "o", "d">>, <<"m", "o", "d", "u", "l", "e", " ", "m", "\n">>, TRUE, FALSE),
     File(<<"M", "a", "k", "e", "f", "i", "l", "e">>, <<"b", ":", "\n", "x", "=", "1", "\n", "a", ":", "\n", "a", "l", "l", ":", " ", "a">>, TRUE, FALSE),
     File(<<"w", "/", "x", ".", "m", "k">>, <<"a", ":", "\n">>, TRUE, FALSE),
     File(<<"i", "m", "g", ".", "p", "n", "g">>, <<"\n">>, TRUE, FALSE),
     File(<<"R", "E", "A", "D", "M", "E", ".", "m", "d">>, <<"#", " ", "T", "\n">>, TRUE, FALSE),
     File(<<"w", "/", "R", "E", "A", "D", "M", "E", ".", "m", "d">>, <<"#", " ", "U", "\n">>, FALSE, FALSE),
     File(<<"p", "/", "a", "d", "r", "2", ".", "m", "d">>, <<"#", " ", "B", "\n">>, TRUE, FALSE),
     File(<<"p", "/", "a", "d", "r", "1", ".", "m", "d">>, <<"#", " ", "A", "\n">>, TRUE, FALSE),
     File(<<"u", "/", "g", "o", ".", "m", "o", "d">>, <<"m", "o", "d", "u", "l", "e", " ", "u", "\n">>, FALSE, FALSE),
     File(<<"L", "I", "C", "E", "N", "S", "E">>, <<"M", "I", "T", "\n">>, TRUE, FALSE),
     File(<<"D", "o", "c", "k", "e", "r", "f", "i", "l", "e">>, <<"F", "R", "O", "M", " ", "x", "\n">>, TRUE, FALSE),
     File(<<"d", "b", "/", "s", "c", "h", "e", "m", "a", ".", "s", "q", "l">>, <<"\n">>, TRUE, FALSE),
     File(<<"d", "b", "/", "q", ".", "s", "q", "l">>, <<"\n">>, TRUE, FALSE),
     File(<<".", "e", "n", "v">>, <<"A", "=", "1", "\n">>, TRUE, FALSE),
     File(<<"t", ".", "f", "e", "a", "t", "u", "r", "e">>, <<"\n">>, TRUE, FALSE),
     File(<<"c", "o", "v", "e", "r", "a", "g", "e", ".", "o", "u", "t">>, <<"m", "o", "d", "e", ":", " ", "s", "e", "t", "\n", "a", ".", "g", "o", ":", "1", ".", "1", ",", "2", ".", "2", " ", "3", " ", "1", "\n", "b", ".", "g", "o", ":", "1", ".", "1", ",", "2", ".", "2", " ", "5", " ", "0", "\n">>, TRUE, FALSE),
     File(<<"c", "u", "c", "u", "m", "b", "e", "r", ".", "j", "s", "o", "n">>, <<"\n">>, TRUE, FALSE),
     File(<<"s", "k", "i", "p", ".", "l", "o", "g">>, <<"\n">>, TRUE, TRUE),
     File(<<"m", "a", "i", "n", ".", "g", "o">>, <<"\n">>, TRUE, FALSE),
     File(<<"t", "m", "p", "/", "x", ".", "g", "o">>, <<"\n">>, TRUE, FALSE),
     File(<<"a", "/", "t", "m", "p", "/", "y", ".", "g", "o">>, <<"\n">>, TRUE, FALSE),
     File(<<"a", "/", "t", "m", "p", "/", "z", "/", "L", "I", "C", "E", "N", "S", "E">>, <<"\n">>, TRUE, FALSE),
     File(<<"a", "/", "m", ".", "g", "o">>, <<"\n">>, TRUE, FALSE) >>

\* n times the character c
Repeat(c, n) == [i \in 1..n |-> c]

\* strconv.Itoa for a natural number
RECURSIVE Itoa(_)
Itoa(n) ==
  LET d == <<<<"0">>, <<"1">>, <<"2">>, <<"3">>, <<"4">>, <<"5">>, <<"6">>,
             <<"7">>, <<"8">>, <<"9">>>>
  IN  IF n < 10 THEN d[n + 1] ELSE Itoa(n \div 10) \o d[(n % 10) + 1]

\* the blocks of the coverage profiles of the extraction runs, as the
\* statement count and the hit count of each data line
ProfileBlocks ==
  [c1 |-> <<[stmts |-> 3, hits |-> 1]>>,
   c2 |-> <<[stmts |-> 5, hits |-> 0]>>,
   c3 |-> <<[stmts |-> 12, hits |-> 0], [stmts |-> 7, hits |-> 10],
            [stmts |-> 0, hits |-> 3], [stmts |-> 21, hits |-> 1]>>,
   c0 |-> <<>>]

\* a cover profile as "go test -coverprofile" writes it: the mode line and
\* one line "file:span numStatements count" per block
RECURSIVE ProfileLinesText(_)
ProfileLinesText(blocks) ==
  IF blocks = <<>> THEN <<>>
  ELSE <<"x", ".", "g", "o", ":", "1", ".", "1", ",", "2", ".", "2", " ">> \o Itoa(Head(blocks).stmts) \o <<" ">>
         \o Itoa(Head(blocks).hits) \o <<"\n">> \o ProfileLinesText(Tail(blocks))

ProfileText(blocks) == <<"m", "o", "d", "e", ":", " ", "s", "e", "t", "\n">> \o ProfileLinesText(blocks)

\* the ceilings of the readme fields and the default of the flag
\* max-bytes-per-file
TitleLimit == 120
maxLen == 400
DefaultMaxFileBytes == 65536

\* the files of the extraction runs: the documents of the extractors, files
\* that several cases of the switch match, files that cannot be opened
ExtractTable ==
  << File(<<"d", "/", "R", "E", "A", "D", "M", "E", ".", "m", "d">>, <<"#", " ", "M", "y", " ", "S", "e", "r", "v", "i", "c", "e", "\n", "\n", "T", "h", "i", "s", " ", "s", "e", "r", "v", "i", "c", "e", " ", "d", "o", "e", "s", " ", "X", ".", "\n">>, TRUE, FALSE),
     File(<<"e", "/", "R", "E", "A", "D", "M", "E", ".", "m", "d">>,
          <<"\r", "\n", "-", " ", "i", "t", "e", "m", "\n", ">", " ", "q", "\n", "#", "#", " ", "G", "o", "a", "l", "s", "\n", "\n", "-", " ", "a", "\n", "*", " ", "b", "\n", "#", " ", "s", "u", "b", "\n", "c", "\n", "d", "\n", "#", " ", " ", "T", " ", "\t", "\r", "\n", "f", "r", "e", "e", " ", " ", "t", "e", "x", "t", " ", "\r", "\n", "#", " ", "T", "2", "\n">>,
          TRUE, FALSE),
     File(<<"l", "/", "R", "E", "A", "D", "M", "E", ".", "m", "d">>,
          <<"#", " ">> \o Repeat("x", TitleLimit + 1) \o <<"\r", "\n", "\n">>
            \o Repeat("y", maxLen + 1) \o <<"\n">>, TRUE, FALSE),
     File(<<"n", "/", "R", "E", "A", "D", "M", "E", ".", "m", "d">>, <<"#", " ", "N", "\n">>, FALSE, FALSE),
     File(<<"n", "/", "g", "o", ".", "m", "o", "d">>, <<"m", "o", "d", "u", "l", "e", " ", "n", "\n">>, FALSE, FALSE),
     File(<<"m", "/", "g", "o", ".", "m", "o", "d">>,
          <<"m", "o", "d", "u", "l", "e", " ", "e", "x", "a", "m", "p", "l", "e", ".", "c", "o", "m", "/", "a", "p", "p", "\n", "r", "e", "q", "u", "i", "r", "e", " ", "(", "\n", " ", " ", "g", "i", "t", "h", "u", "b", ".", "c", "o", "m", "/", "x", " ", "v", "1", ".", "0", ".", "0", "\n", ")", "\n">>, TRUE, FALSE),
     File(<<"s", "/", "g", "o", ".", "m", "o", "d">>,
          <<"m", "o", "d", "u", "l", "e", " ", " ", "s", " ", "\n", "/", "/", " ", "c", "\n", "r", "e", "q", "u", "i", "r", "e", " ", "g", "i", "t", "h", "u", "b", ".", "c", "o", "m", "/", "y", " ", "v", "2", " ", "/", "/", " ", "c", "\n", "r", "e", "q", "u", "i", "r", "e", " ", "(", "z", ")", " ", "\n">>, TRUE, FALSE),
     File(<<"n", "/", "a", ".", "p", "r", "o", "t", "o">>, <<"p", "a", "c", "k", "a", "g", "e", " ", "n", ";", "\n">>, FALSE, FALSE),
     File(<<"s", "/", "a", ".", "p", "r", "o", "t", "o">>,
          <<"p", "a", "c", "k", "a", "g", "e", " ", "a", ".", "b", ";", "\n", "s", "e", "r", "v", "i", "c", "e", " ", "S", " ", "{", "\n", " ", " ", "r", "p", "c", " ", "G", "e", "t", "(", "R", "e", "q", ")", " ", "r", "e", "t", "u", "r", "n", "s", " ", "(", "R", "e", "s", ")", ";", "\n", "}", "\n">>, TRUE, FALSE),
     File(<<"n", "/", "x", ".", "m", "k">>, <<"a", ":", "\n">>, FALSE, FALSE),
     File(<<"n", "/", "a", "d", "r", "1", ".", "m", "d">>, <<"#", " ", "A", "\n">>, FALSE, FALSE),
     File(<<"s", "/", "a", "d", "r", "/", "R", "E", "A", "D", "M", "E", ".", "m", "d">>, <<"i", "n", "t", "r", "o", "\n", "#", " ", "U", "s", "e", " ", "X", "\n", "#", "#", " ", "c", "t", "x", "\n", "b", "e", "c", "a", "u", "s", "e", "\n">>, TRUE, FALSE),
     File(<<"s", "/", "l", "i", "c", "e", "n", "s", "e", ".", "e", "n", "v">>, <<"A", "=", "1", "\n">>, TRUE, FALSE),
     File(<<"s", "/", "l", "i", "c", "e", "n", "s", "e", ".", "m", "k">>, <<"#", " ", "t", "\n", "l", "i", "c", ":", "\n", "x", " ", "=", " ", "1", "\n">>, TRUE, FALSE),
     File(<<"s", "/", "D", "o", "c", "k", "e", "r", "f", "i", "l", "e", ".", "s", "a", "m", "p", "l", "e">>, <<"F", "R", "O", "M", " ", "x", "\n">>, TRUE, FALSE),
     File(<<"s", "/", "l", "i", "c", "e", "n", "s", "e", ".", "s", "q", "l">>, <<"\n">>, TRUE, FALSE),
     File(<<"s", "/", "g", "o", ".", "m", "o", "d", ".", "p", "r", "o", "t", "o">>, <<"p", "a", "c", "k", "a", "g", "e", " ", "g", ";", "\n">>, TRUE, FALSE),
     File(<<"s", "/", "j", "u", "n", "i", "t", "-", "l", "i", "c", "e", "n", "s", "e", ".", "x", "m", "l">>, <<"\n">>, TRUE, FALSE),
     File(<<"c", "1", "/", "c", "o", "v", "e", "r", "a", "g", "e", ".", "o", "u", "t">>, <<"m", "o", "d", "e", ":", " ", "s", "e", "t", "\n", "a", ".", "g", "o", ":", "1", ".", "1", ",", "2", ".", "2", " ", "3", " ", "1", "\n">>, TRUE, FALSE),
     File(<<"c", "2", "/", "c", "o", "v", ".", "c", "o", "v", "e", "r", "p", "r", "o", "f", "i", "l", "e">>, <<"m", "o", "d", "e", ":", " ", "s", "e", "t", "\n", "b", ".", "g", "o", ":", "1", ".", "1", ",", "2", ".", "2", " ", "5", " ", "0", "\n">>, TRUE, FALSE),
     File(<<"c", "3", "/", "c", "o", "v", "e", "r", "a", "g", "e", ".", "t", "x", "t">>, ProfileText(ProfileBlocks.c3), TRUE, FALSE),
     File(<<"c", "0", "/", "c", "o", "v", "e", "r", "a", "g", "e", ".", "o", "u", "t">>, ProfileText(ProfileBlocks.c0), TRUE, FALSE),
     File(<<"c", "0", "/", "t", ".", "f", "e", "a", "t", "u", "r", "e">>, <<"\n">>, TRUE, FALSE),
     File(<<"d", "o", "c", "s", "/", "d", "e", "c", "i", "s", "i", "o", "n", "s", "/", "d", "1", ".", "m", "d">>, <<"#", " ", "U", "s", "e", " ", "Y", "\n", "w", "h", "y", "\n">>, TRUE, FALSE),
     File(<<"x", "/", "d", "o", "c", "s", "/", "d", "e", "c", "i", "s", "i", "o", "n", "s", "/", "d", "2", ".", "m", "d">>, <<"#", " ", "U", "s", "e", " ", "Z", "\n", "\n", "#", "#", " ", "c", "t", "x", "\n", "f", "o", "r", " ", "s", "p", "e", "e", "d", "\n">>, TRUE, FALSE) >>

\* profiles with a token that is no number
TokenTable ==
  << File(<<"k", "1", "/", "c", "o", "v", "e", "r", "a", "g", "e", ".", "o", "u", "t">>, <<"m", "o", "d", "e", ":", " ", "s", "e", "t", "\n", "a", ".", "g", "o", ":", "1", ".", "1", ",", "2", ".", "2", " ", "3", "x", " ", "1", "\n">>, TRUE, FALSE),
     File(<<"k", "2", "/", "c", "o", "v", "e", "r", "a", "g", "e", ".", "o", "u", "t">>, <<"m", "o", "d", "e", ":", " ", "s", "e", "t", "\n", "a", ".", "g", "o", ":", "1", ".", "1", ",", "2", ".", "2", " ", "4", " ", "+", "1", "\n">>, TRUE, FALSE),
     File(<<"k", "3", "/", "c", "o", "v", "e", "r", "a", "g", "e", ".", "o", "u", "t">>, <<"m", "o", "d", "e", ":", " ", "s", "e", "t", "\n", "a", ".", "g", "o", ":", "1", ".", "1", ",", "2", ".", "2", " ", "x", " ", "1", "\n", "b", ".", "g", "o", ":", "1", ".", "1", ",", "2", ".", "2", " ", "2", " ", "1", "\n">>, TRUE, FALSE) >>

RPCsLimit == 20

ReportsLimit == 8

\* the largest number of BDD reports in a tree
MaxReports == 9

\* a schema file with one service of n procedures
RECURSIVE RPCLines(_)
RPCLines(n) ==
  IF n = 0 THEN <<>>
  ELSE RPCLines(n - 1) \o <<"r", "p", "c", " ", "M">> \o Itoa(n) \o <<"(", "A", ")", " ", "r", "e", "t", "u", "r", "n", "s", " ", "(", "B", ")", ";", "\n">>

\* BDD reports, and a schema file with more procedures than the rendering
\* lists
ReportTable ==
  [i \in 1..MaxReports |->
     File(<<"r">> \o Itoa(i) \o <<"/", "c", "u", "c", "u", "m", "b", "e", "r", ".", "j", "s", "o", "n">>, <<"[", "{", "}", "]">>, TRUE, FALSE)]
  \o << File(<<"a", "p", "i", "/", "b", "i", "g", ".", "p", "r", "o", "t", "o">>,
              <<"s", "e", "r", "v", "i", "c", "e", " ", "S", " ", "{", "\n">> \o RPCLines(RPCsLimit + 1) \o <<"}", "\n">>, TRUE, FALSE) >>

\* a file whose reading fails after BrokenAt bytes, and one as long that
\* reads to its end
BrokenTable ==
  << File(<<"f", "/", "a", ".", "p", "r", "o", "t", "o">>, <<"p", "a", "c", "k", "a", "g", "e", " ", "a", ";", "\n", "s", "e", "r", "v", "i", "c", "e", " ", "A", " ", "{", "}", "\n">>, TRUE, FALSE),
     File(<<"f", "/", "b", ".", "p", "r", "o", "t", "o">>, <<"p", "a", "c", "k", "a", "g", "e", " ", "b", ";", "\n", "s", "e", "r", "v", "i", "c", "e", " ", "B", " ", "{", "}", "\n">>, TRUE, FALSE) >>

BrokenPaths == {BrokenTable[1].path}

BrokenAt == 5

\* a picture below the root, for the runs that vary the glob lists
WalkTable == << File(<<"a", "/", "b", ".", "p", "n", "g">>, <<"\n">>, TRUE, FALSE) >>

\* hidden entries and directories four levels deep, for the runs that vary
\* the depth of the tree
TreeTable ==
  << File(<<".", "g", "i", "t", "h", "u", "b", "/", "w", ".", "y", "m", "l">>, <<"\n">>, TRUE, FALSE),
     File(<<"a", "/", ".", "h", "i", "d", "/", "x", ".", "g", "o">>, <<"\n">>, TRUE, FALSE),
     File(<<"a", "/", "B", ".", "g", "o">>, <<"\n">>, TRUE, FALSE),
     File(<<"a", "/", "b", "/", "c", "/", "d", "/", "e", ".", "g", "o">>, <<"\n">>, TRUE, FALSE),
     File(<<"a", "/", "b", "/", "m", ".", "g", "o">>, <<"\n">>, TRUE, FALSE),
     File(<<"z", ".", "g", "o">>, <<"\n">>, TRUE, FALSE) >>

\* the files of all runs
AllFiles == FileTable \o ExtractTable \o WalkTable \o TreeTable \o TokenTable
              \o ReportTable \o BrokenTable

EntryOf(table, p) == table[CHOOSE i \in 1..Len(table) : table[i].path = p]

Entry(p) == EntryOf(AllFiles, p)

\* the trees of the extraction runs: at most MaxFiles neighbouring files of
\* ExtractTable, of TokenTable or of BrokenTable
ExtractTrees ==
  {t \in { {ExtractTable[i].path : i \in lo..hi} :
             lo \in 1..Len(ExtractTable), hi \in 0..Len(ExtractTable) }
          \cup { {TokenTable[i].path : i \in lo..hi} :
                   lo \in 1..Len(TokenTable), hi \in 0..Len(TokenTable) }
          \cup { {BrokenTable[i].path : i \in lo..hi} :
                   lo \in 1..Len(BrokenTable), hi \in 0..Len(BrokenTable) } :
     Cardinality(t) <= MaxFiles}

\* the trees of the model: at most MaxFiles neighbouring files of the table
TreeChoices ==
  { {FileTable[i].path : i \in lo..hi} :
      lo \in 1..Len(FileTable), hi \in 0..Len(FileTable) } 

Trees == {t \in TreeChoices : Cardinality(t) <= MaxFiles}

\* cfg.Root, an absolute path (main makes it absolute with filepath.Abs)
Root == <<"/", "r">>

\* the directories of a tree, as root-relative paths
DirsOf(files) ==
  UNION { { Take(f, i - 1) : i \in {j \in 1..Len(f) : f[j] = "/"} } : f \in files }

\* a set of strings as the sequence in ascending byte order
RECURSIVE SortedSeq(_)
SortedSeq(S) ==
  IF S = {} THEN <<>>
  ELSE LET m == CHOOSE x \in S : \A y \in S \ {x} : StrLess(x, y)
       IN  <<m>> \o SortedSeq(S \ {m})

\* os.ReadDir / the order of filepath.WalkDir: the entries of directory dir,
\* sorted by file name
ReadDir(files, dir) ==
  SortedSeq({e \in files \cup DirsOf(files) : Parent(e) = dir /\ e # <<>>})

(***************************************************************************)
(* package files                                                           *)
(***************************************************************************)
DefaultIgnore ==
  <<<<".", "g", "i", "t", "/">>, <<".", "g", "i", "t", "/", "*", "*">>,
    <<".", "h", "g", "/">>, <<".", "s", "v", "n", "/">>,
    <<"n", "o", "d", "e", "_", "m", "o", "d", "u", "l", "e", "s", "/", "*", "*">>, <<"d", "i", "s", "t", "/", "*", "*">>, <<"b", "u", "i", "l", "d", "/", "*", "*">>, <<"o", "u", "t", "/", "*", "*">>, <<"b", "i", "n", "/", "*", "*">>, <<"o", "b", "j", "/", "*", "*">>,
    <<".", "v", "e", "n", "v", "/", "*", "*">>, <<"v", "e", "n", "v", "/", "*", "*">>, <<"_", "_", "p", "y", "c", "a", "c", "h", "e", "_", "_", "/", "*", "*">>,
    <<".", "i", "d", "e", "a", "/", "*", "*">>, <<".", "v", "s", "c", "o", "d", "e", "/", "*", "*">>, <<".", "D", "S", "_", "S", "t", "o", "r", "e">>,
    <<".", "t", "e", "r", "r", "a", "f", "o", "r", "m", "/", "*", "*">>, <<"v", "e", "n", "d", "o", "r", "/", "*", "*">>,
    <<"*", ".", "p", "n", "g">>, <<"*", ".", "j", "p", "g">>, <<"*", ".", "j", "p", "e", "g">>, <<"*", ".", "g", "i", "f">>, <<"*", ".", "w", "e", "b", "p">>, <<"*", ".", "i", "c", "o">>,
    <<"*", ".", "p", "d", "f">>, <<"*", ".", "p", "p", "t">>, <<"*", ".", "p", "p", "t", "x">>, <<"*", ".", "d", "o", "c">>, <<"*", ".", "d", "o", "c", "x">>, <<"*", ".", "x", "l", "s">>, <<"*", ".", "x", "l", "s", "x">>,
    <<"*", ".", "z", "i", "p">>, <<"*", ".", "t", "a", "r">>, <<"*", ".", "g", "z">>, <<"*", ".", "t", "g", "z">>, <<"*", ".", "7", "z">>,
    <<"*", ".", "m", "p", "4">>, <<"*", ".", "m", "p", "3">>, <<"*", ".", "m", "o", "v">>, <<"*", ".", "a", "v", "i">>>>

\* which of the two copies of package files the build links: TRUE for the
\* copy at part_000:161-232, whose MatchAny also tries the base name
VARIABLE matchBase

\* MatchAny as part_000:149 defines it: some glob matches the path
MatchAnyPath(globs, path) ==
  \E i \in 1..Len(globs) : Match(globs[i], path)

\* MatchAny as part_000:220 defines it: some glob matches the path or the
\* base name of the path
MatchAnyBase(globs, path) ==
  \E i \in 1..Len(globs) :
    Match(globs[i], path) \/ Match(globs[i], Base(path))

\* files.MatchAny as package collect calls it. The repository defines it
\* twice and a build links one of the two definitions.
MatchAny(globs, path) ==
  IF matchBase THEN MatchAnyBase(globs, path) ELSE MatchAnyPath(globs, path)

\* GitIgnoreMatcher.Match: some compiled .gitignore matches the path
GitIgnoreMatch(ignores, path) == path \in ignores

\* the offset at which reading a file fails with an I/O error, -1 for a
\* file that reads to its end
ReadErrAt(path) == IF path \in BrokenPaths THEN BrokenAt ELSE -1

\* the bytes a read can deliver of data whose reading fails at offset at:
\* up to the end or to the offset of the error
DeliverableOf(data, at) ==
  IF at >= 0 /\ at < Len(data) THEN at ELSE Len(data)

Deliverable(path) == DeliverableOf(Entry(path).data, ReadErrAt(path))

\* the smaller of two numbers
Min(a, b) == IF a < b THEN a ELSE b

ChunkSize == 4096

\* the loop of ReadHead at part_000:196: r.Read delivers what there is, up
\* to the chunk, and reports the end or the error once nothing is left
\* (data is the content of the file, avail the bytes a read can deliver)
RECURSIVE ReadChunks(_, _, _, _, _)
ReadChunks(data, avail, max, b, reads) ==
  LET n == Len(b)
      chunk == Min(ChunkSize, max - n)
      read == Min(chunk, avail - n)
  IN  IF n >= max THEN [text |-> b, err |-> FALSE, reads |-> reads]
      ELSE IF read > 0
        THEN ReadChunks(data, avail, max, b \o SubSeq(data, n + 1, n + read),
                        reads + 1)
      ELSE [text |-> b, err |-> avail < Len(data), reads |-> reads + 1]

BufferSize == 32768

\* the loop of ReadHead at part_000:128: io.ReadFull delivers toRead bytes,
\* or fewer together with the end or the error
RECURSIVE ReadFullLoop(_, _, _, _, _)
ReadFullLoop(data, avail, maxBytes, builder, reads) ==
  LET total == Len(builder)
      toRead == Min(BufferSize, maxBytes - total)
      n == Min(toRead, avail - total)
      written == builder \o SubSeq(data, total + 1, total + n)
  IN  IF total >= maxBytes THEN [text |-> builder, err |-> FALSE, reads |-> reads]
      ELSE IF n = toRead THEN ReadFullLoop(data, avail, maxBytes, written, reads + 1)
      ELSE [text |-> written, err |-> avail < Len(data), reads |-> reads + 1]

\* ReadHead that hands back the whole file
ReadHead_NoCap(path, max) ==
  [text |-> Entry(path).data, err |-> ~Entry(path).ok, reads |-> 1]

\* ReadHead of a file entry e whose reading fails at offset at
ReadHeadOf(e, at, max) ==
  IF ~e.ok THEN [text |-> <<>>, err |-> TRUE, reads |-> 0]
  ELSE IF matchBase THEN ReadChunks(e.data, DeliverableOf(e.data, at), max, <<>>, 0)
  ELSE IF max <= 0 THEN [text |-> <<>>, err |-> FALSE, reads |-> 0]
  ELSE ReadFullLoop(e.data, DeliverableOf(e.data, at), max, <<>>, 0)

\* files.ReadHead, of the copy of package files that the build links
ReadHead(path, max) == ReadHeadOf(Entry(path), ReadErrAt(path), max)

\* os.ReadFile of a file entry e whose reading fails at offset at
ReadFileOf(e, at) ==
  IF ~e.ok \/ DeliverableOf(e.data, at) < Len(e.data)
    THEN [text |-> <<>>, err |-> TRUE]
    ELSE [text |-> e.data, err |-> FALSE]

\* os.ReadFile
ReadFile(path) == ReadFileOf(Entry(path), ReadErrAt(path))

(***************************************************************************)
(* package collect: configuration and the walk of Scan                     *)
(***************************************************************************)
\* strings.Split(s, ",")
RECURSIVE SplitComma(_)
SplitComma(s) ==
  IF \A i \in 1..Len(s) : s[i] # "," THEN <<s>>
  ELSE LET k == CHOOSE i \in 1..Len(s) :
                  s[i] = "," /\ \A j \in 1..(i - 1) : s[j] # ","
       IN  <<Take(s, k - 1)>> \o SplitComma(Drop(s, k))

RECURSIVE TrimmedNonEmpty(_)
TrimmedNonEmpty(parts) ==
  IF parts = <<>> THEN <<>>
  ELSE LET p == TrimSpace(Head(parts))
       IN  (IF p # <<>> THEN <<p>> ELSE <<>>) \o TrimmedNonEmpty(Tail(parts))

splitCSV(s) ==
  IF TrimSpace(s) = <<>> THEN <<>> ELSE TrimmedNonEmpty(SplitComma(s))

\* excludeGlobs of Scan: the default list followed by the user's globs
ExcludeGlobs(csv) == DefaultIgnore \o splitCSV(csv)

\* EffectiveThreads without the default for a non-positive value
EffectiveThreads_NoDefault(threads) == threads

\* cfg.Threads after the default of Scan
EffectiveThreads(threads) == IF threads <= 0 THEN NumCPU ELSE threads

\* the callback of filepath.WalkDir in Scan, applied to the entries of a
\* directory in order: the candidate paths it appends
RECURSIVE WalkEntries(_, _, _, _, _)
WalkEntries(files, ignores, excl, incl, entries) ==
  IF entries = <<>> THEN <<>>
  ELSE
    LET rel == Head(entries)
        isDir == rel \in DirsOf(files)
        here ==
          IF GitIgnoreMatch(ignores, rel) THEN <<>>
          ELSE IF isDir
            THEN IF MatchAny(excl, rel \o <<"/">>) THEN <<>>
                 ELSE WalkEntries(files, ignores, excl, incl, ReadDir(files, rel))
          ELSE IF MatchAny(excl, rel) /\ ~MatchAny(incl, rel) THEN <<>>
          ELSE <<rel>>
    IN  here \o WalkEntries(files, ignores, excl, incl, Tail(entries))

\* WalkPaths of a walk that comes back to its first file, as it would
\* through a link to a directory it has visited
WalkPaths_VisitsAgain(files, ignores, excl, incl) ==
  LET w == WalkEntries(files, ignores, excl, incl, ReadDir(files, <<>>))
  IN  IF w = <<>> THEN w ELSE Append(w, w[1])

\* the candidate list of Scan
WalkPaths(files, ignores, excl, incl) ==
  WalkEntries(files, ignores, excl, incl, ReadDir(files, <<>>))

(***************************************************************************)
(* package collect: classification and the extractors                      *)
(***************************************************************************)
\* KindOf with the case of the licenses tried before the case of the
\* environment examples
KindOf_LicenseBeforeEnv(lower) ==
  IF HasSuffix(lower, <<"g", "o", ".", "m", "o", "d">>) THEN "gomod"
  ELSE IF HasSuffix(lower, <<".", "p", "r", "o", "t", "o">>) THEN "proto"
  ELSE IF Base(lower) = <<"m", "a", "k", "e", "f", "i", "l", "e">> \/ HasSuffix(lower, <<".", "m", "k">>) THEN "make"
  ELSE IF HasSuffix(lower, <<"d", "o", "c", "k", "e", "r", "f", "i", "l", "e">>) \/ HasPrefix(Base(lower), <<"d", "o", "c", "k", "e", "r", "f", "i", "l", "e", ".">>)
    THEN "docker"
  ELSE IF HasSuffix(lower, <<".", "s", "q", "l">>) THEN "sql"
  ELSE IF HasSuffix(lower, <<".", "m", "d">>)
          /\ (Contains(lower, <<"/", "d", "o", "c", "s", "/", "d", "e", "c", "i", "s", "i", "o", "n", "s", "/">>) \/ Contains(lower, <<"/", "a", "d", "r">>))
    THEN "decision"
  ELSE IF Contains(lower, <<"l", "i", "c", "e", "n", "s", "e">>) THEN "license"
  ELSE IF HasSuffix(lower, <<".", "e", "n", "v">>) \/ HasSuffix(lower, <<".", "e", "n", "v", ".", "e", "x", "a", "m", "p", "l", "e">>)
          \/ HasSuffix(lower, <<".", "s", "a", "m", "p", "l", "e">>)
    THEN "env"
  ELSE IF Base(lower) = <<"r", "e", "a", "d", "m", "e", ".", "m", "d">> THEN "readme"
  ELSE IF HasSuffix(lower, <<".", "f", "e", "a", "t", "u", "r", "e">>) THEN "feature"
  ELSE IF Base(lower) = <<"c", "o", "v", "e", "r", "a", "g", "e", ".", "o", "u", "t">> \/ HasSuffix(lower, <<".", "c", "o", "v", "e", "r", "p", "r", "o", "f", "i", "l", "e">>)
          \/ HasSuffix(lower, <<"c", "o", "v", "e", "r", "a", "g", "e", ".", "t", "x", "t">>)
    THEN "coverprofile"
  ELSE IF HasSuffix(lower, <<".", "j", "s", "o", "n">>)
          /\ (Contains(lower, <<"c", "u", "c", "u", "m", "b", "e", "r">>) \/ Contains(lower, <<"g", "o", "d", "o", "g">>))
    THEN "bddjson"
  ELSE IF HasSuffix(lower, <<".", "x", "m", "l">>)
          /\ (Contains(lower, <<"j", "u", "n", "i", "t">>) \/ Contains(lower, <<"c", "u", "c", "u", "m", "b", "e", "r">>))
    THEN "bddxml"
  ELSE "none"

\* the case of the switch in the worker that a path takes, by its lower-cased
\* form; the cases are tried in the order of the source
KindOf(lower) ==
  IF HasSuffix(lower, <<"g", "o", ".", "m", "o", "d">>) THEN "gomod"
  ELSE IF HasSuffix(lower, <<".", "p", "r", "o", "t", "o">>) THEN "proto"
  ELSE IF Base(lower) = <<"m", "a", "k", "e", "f", "i", "l", "e">> \/ HasSuffix(lower, <<".", "m", "k">>) THEN "make"
  ELSE IF HasSuffix(lower, <<"d", "o", "c", "k", "e", "r", "f", "i", "l", "e">>) \/ HasPrefix(Base(lower), <<"d", "o", "c", "k", "e", "r", "f", "i", "l", "e", ".">>)
    THEN "docker"
  ELSE IF HasSuffix(lower, <<".", "s", "q", "l">>) THEN "sql"
  ELSE IF HasSuffix(lower, <<".", "m", "d">>)
          /\ (Contains(lower, <<"/", "d", "o", "c", "s", "/", "d", "e", "c", "i", "s", "i", "o", "n", "s", "/">>) \/ Contains(lower, <<"/", "a", "d", "r">>))
    THEN "decision"
  ELSE IF HasSuffix(lower, <<".", "e", "n", "v">>) \/ HasSuffix(lower, <<".", "e", "n", "v", ".", "e", "x", "a", "m", "p", "l", "e">>)
          \/ HasSuffix(lower, <<".", "s", "a", "m", "p", "l", "e">>)
    THEN "env"
  ELSE IF Contains(lower, <<"l", "i", "c", "e", "n", "s", "e">>) THEN "license"
  ELSE IF Base(lower) = <<"r", "e", "a", "d", "m", "e", ".", "m", "d">> THEN "readme"
  ELSE IF HasSuffix(lower, <<".", "f", "e", "a", "t", "u", "r", "e">>) THEN "feature"
  ELSE IF Base(lower) = <<"c", "o", "v", "e", "r", "a", "g", "e", ".", "o", "u", "t">> \/ HasSuffix(lower, <<".", "c", "o", "v", "e", "r", "p", "r", "o", "f", "i", "l", "e">>)
          \/ HasSuffix(lower, <<"c", "o", "v", "e", "r", "a", "g", "e", ".", "t", "x", "t">>)
    THEN "coverprofile"
  ELSE IF HasSuffix(lower, <<".", "j", "s", "o", "n">>)
          /\ (Contains(lower, <<"c", "u", "c", "u", "m", "b", "e", "r">>) \/ Contains(lower, <<"g", "o", "d", "o", "g">>))
    THEN "bddjson"
  ELSE IF HasSuffix(lower, <<".", "x", "m", "l">>)
          /\ (Contains(lower, <<"j", "u", "n", "i", "t">>) \/ Contains(lower, <<"c", "u", "c", "u", "m", "b", "e", "r">>))
    THEN "bddxml"
  ELSE "none"

\* strings.Fields: the maximal runs of non-space characters
RECURSIVE Fields(_)
Fields(s) ==
  IF \A i \in 1..Len(s) : IsSpace(s[i]) THEN <<>>
  ELSE
    LET lo == CHOOSE i \in 1..Len(s) :
                ~IsSpace(s[i]) /\ \A j \in 1..(i - 1) : IsSpace(s[j])
        ends == {i \in lo..Len(s) : IsSpace(s[i])}
        hi == IF ends = {} THEN Len(s) + 1
              ELSE CHOOSE i \in ends : \A j \in ends : i <= j
    IN  <<SubSeq(s, lo, hi - 1)>> \o Fields(Drop(s, hi - 1))

\* the inner loop of parseGoMod over the pieces of the rest of a require
\* line: the first field of every piece that is not empty and no comment
RECURSIVE RequireTokens(_)
RequireTokens(rs) ==
  IF rs = <<>> THEN <<>>
  ELSE
    LET r == TrimSpace(Head(rs))
        rest == RequireTokens(Tail(rs))
        parts == Fields(r)
    IN  IF r = <<>> \/ HasPrefix(r, <<"/", "/">>) THEN rest
        ELSE IF Len(parts) >= 1 THEN <<parts[1]>> \o rest
        ELSE rest

\* the loop of parseGoMod over the lines of the file, from the GoModule gm
RECURSIVE GoModLines(_, _)
GoModLines(lines, gm) ==
  IF lines = <<>> THEN gm
  ELSE
    LET ln == TrimSpace(Head(lines))
        gm1 == IF HasPrefix(ln, <<"m", "o", "d", "u", "l", "e", " ">>)
                 THEN [gm EXCEPT !.Module = TrimSpace(TrimPrefix(ln, <<"m", "o", "d", "u", "l", "e">>))]
                 ELSE gm
        rest == Trim(TrimSpace(TrimPrefix(ln, <<"r", "e", "q", "u", "i", "r", "e">>)), {"(", ")"})
        gm2 == IF HasPrefix(ln, <<"r", "e", "q", "u", "i", "r", "e", " ">>)
                 THEN [gm1 EXCEPT !.Requires = @ \o RequireTokens(SplitLines(rest))]
                 ELSE gm1
    IN  GoModLines(Tail(lines), gm2)

\* the zero values of the entries of the Summary
NoGoModule == [Path |-> <<>>, Module |-> <<>>, Requires |-> <<>>]
NoProtoInfo == [File |-> <<>>, Package |-> <<>>, Services |-> <<>>, RPCs |-> <<>>]
NoDecision == [File |-> <<>>, Title |-> <<>>, Summary |-> <<>>]
NoReadmeSummary == [File |-> <<>>, Title |-> <<>>, FirstPara |-> <<>>, Objective |-> <<>>]

\* parseGoMod that drops the error of the read
parseGoMod_IgnoresError(path, rel) ==
  [err |-> FALSE, val |-> [NoGoModule EXCEPT !.Path = path]]

\* parseGoMod: path is the path the caller passes, rel the file it names
parseGoMod(path, rel) ==
  LET data == ReadFile(rel)
  IN  IF data.err THEN [err |-> TRUE, val |-> NoGoModule]
      ELSE [err |-> FALSE,
            val |-> GoModLines(SplitLines(data.text), [NoGoModule EXCEPT !.Path = path])]

\* the loop of parseProto over the lines of the head, from the ProtoInfo pi
RECURSIVE ProtoLines(_, _)
ProtoLines(lines, pi) ==
  IF lines = <<>> THEN pi
  ELSE
    LET ln == TrimSpace(Head(lines))
        pi1 == IF HasPrefix(ln, <<"p", "a", "c", "k", "a", "g", "e", " ">>)
                 THEN [pi EXCEPT !.Package =
                         TrimSuffix(TrimSpace(TrimPrefix(ln, <<"p", "a", "c", "k", "a", "g", "e">>)), <<";">>)]
                 ELSE pi
        pi2 == IF HasPrefix(ln, <<"s", "e", "r", "v", "i", "c", "e", " ">>)
                 THEN [pi1 EXCEPT !.Services = Append(@,
                         TrimSpace(BeforeFirst(TrimSpace(TrimPrefix(ln, <<"s", "e", "r", "v", "i", "c", "e">>)), "{")))]
                 ELSE pi1
        pi3 == IF HasPrefix(ln, <<"r", "p", "c", " ">>)
                 THEN [pi2 EXCEPT !.RPCs = Append(@,
                         TrimSpace(BeforeFirst(TrimSpace(TrimPrefix(ln, <<"r", "p", "c">>)), "(")))]
                 ELSE pi2
    IN  ProtoLines(Tail(lines), pi3)

\* parseProto
parseProto(path, rel, maxBytes) ==
  LET head == ReadHead(rel, maxBytes)
  IN  IF head.err THEN [err |-> TRUE, val |-> NoProtoInfo]
      ELSE [err |-> FALSE,
            val |-> ProtoLines(SplitLines(head.text), [NoProtoInfo EXCEPT !.File = path])]

\* the loop of parseDecision over the lines of the head
RECURSIVE DecisionLines(_, _, _)
DecisionLines(lines, title, summary) ==
  IF lines = <<>> THEN [Title |-> title, Summary |-> summary]
  ELSE
    LET trim == TrimSpace(Head(lines))
    IN  IF HasPrefix(trim, <<"#", " ">>) /\ title = <<>>
          THEN DecisionLines(Tail(lines), TrimPrefix(trim, <<"#", " ">>), summary)
          ELSE LET summary1 == IF summary = <<>> /\ trim # <<>> /\ ~HasPrefix(trim, <<"#">>)
                                 THEN trim ELSE summary
               IN  IF title # <<>> /\ summary1 # <<>>
                     THEN [Title |-> title, Summary |-> summary1]
                     ELSE DecisionLines(Tail(lines), title, summary1)

\* parseDecision
parseDecision(path, rel, maxBytes) ==
  LET head == ReadHead(rel, maxBytes)
      d == DecisionLines(SplitLines(head.text), <<>>, <<>>)
  IN  IF head.err THEN [err |-> TRUE, val |-> NoDecision]
      ELSE [err |-> FALSE,
            val |-> [File |-> path, Title |-> d.Title, Summary |-> d.Summary]]

\* the character U+0060 (a TLA+ string cannot hold it)
Backtick == "[U+0060]"

\* ReadmeTitle that takes the first heading of any level
RECURSIVE ReadmeTitle_AnyHeading(_)
ReadmeTitle_AnyHeading(lines) ==
  IF lines = <<>> THEN <<>>
  ELSE LET trim == TrimSpace(Head(lines))
       IN  IF HasPrefix(trim, <<"#">>) THEN TrimSpace(TrimLeft(trim, {"#"}))
           ELSE ReadmeTitle_AnyHeading(Tail(lines))

\* the first loop of parseReadmeSummary: the title
RECURSIVE ReadmeTitle(_)
ReadmeTitle(lines) ==
  IF lines = <<>> THEN <<>>
  ELSE LET trim == TrimSpace(Head(lines))
       IN  IF HasPrefix(trim, <<"#", " ">>) THEN TrimSpace(TrimPrefix(trim, <<"#", " ">>))
           ELSE ReadmeTitle(Tail(lines))

\* the second loop of parseReadmeSummary: the first free paragraph
RECURSIVE ReadmeFirstPara(_)
ReadmeFirstPara(lines) ==
  IF lines = <<>> THEN <<>>
  ELSE LET trim == TrimSpace(Head(lines))
       IN  IF trim = <<>> \/ HasPrefix(trim, <<"#">>) THEN ReadmeFirstPara(Tail(lines))
           ELSE IF \/ HasPrefix(trim, <<"-", " ">>) \/ HasPrefix(trim, <<"*", " ">>)
                   \/ HasPrefix(trim, <<">">>) \/ HasPrefix(trim, <<Backtick>>)
             THEN ReadmeFirstPara(Tail(lines))
           ELSE trim

\* the loop of findSection over the lines below a heading: at most three
\* content lines, from line j on
RECURSIVE SectionLines(_, _, _)
SectionLines(lines, j, buf) ==
  IF j > Len(lines) \/ Len(buf) >= 3 THEN buf
  ELSE LET t == TrimSpace(lines[j])
       IN  IF t = <<>> \/ HasPrefix(t, <<"#">>) THEN SectionLines(lines, j + 1, buf)
           ELSE IF HasPrefix(t, <<"-", " ">>) \/ HasPrefix(t, <<"*", " ">>)
             THEN SectionLines(lines, j + 1,
                               Append(buf, TrimPrefix(TrimPrefix(t, <<"-", " ">>), <<"*", " ">>)))
           ELSE SectionLines(lines, j + 1, Append(buf, t))

\* findSection of parseReadmeSummary, from line idx on
RECURSIVE findSection(_, _, _)
findSection(lines, idx, names) ==
  IF idx > Len(lines) THEN <<>>
  ELSE LET trim == TrimSpace(lines[idx])
           name == TrimSpace(TrimSpace(TrimLeft(trim, {"#"})))
       IN  IF HasPrefix(trim, <<"#", "#">>) /\ \E n \in names : EqualFold(name, n)
             THEN JoinStrings(SectionLines(lines, idx + 1, <<>>), <<" ">>)
             ELSE findSection(lines, idx + 1, names)

\* the character U+2026 that limit appends (one character, three bytes)
Ellipsis == <<"[U+2026]">>

\* limit of parseReadmeSummary
limit(s, n) ==
  LET t == TrimSpace(ReplaceAll(ReplaceAll(s, "\r", " "), "\n", " "))
  IN  IF Len(t) > n THEN Take(t, n) \o Ellipsis ELSE t

\* parseReadmeSummary
parseReadmeSummary(path, rel, maxBytes) ==
  LET head == ReadHead(rel, maxBytes)
      lines == SplitLines(head.text)
      objective == findSection(lines, 1, {<<"O", "b", "j", "e", "t", "i", "v", "o">>, <<"O", "b", "j", "e", "c", "t", "i", "v", "e">>, <<"G", "o", "a", "l", "s">>})
  IN  IF head.err THEN [err |-> TRUE, val |-> NoReadmeSummary]
      ELSE [err |-> FALSE,
            val |-> [File |-> path,
                     Title |-> limit(ReadmeTitle(lines), TitleLimit),
                     FirstPara |-> limit(ReadmeFirstPara(lines), maxLen),
                     Objective |-> limit(objective, maxLen)]]

\* the loop of parseMakeTargets over the lines of the head
RECURSIVE MakeTargetLines(_)
MakeTargetLines(lines) ==
  IF lines = <<>> THEN <<>>
  ELSE
    LET ln == TrimSpace(Head(lines))
        rest == MakeTargetLines(Tail(lines))
    IN  IF ln = <<>> \/ HasPrefix(ln, <<"#">>) THEN rest
        ELSE IF ~Contains(ln, <<"=">>) /\ HasSuffix(ln, <<":">>)
                /\ ~Contains(ln, <<" ">>)
          THEN LET t == TrimSuffix(ln, <<":">>)
               IN  (IF t # <<>> THEN <<t>> ELSE <<>>) \o rest
        ELSE rest

parseMakeTargets(rel, maxBytes) ==
  LET head == ReadHead(rel, maxBytes)
  IN  IF head.err THEN [err |-> TRUE, val |-> <<>>]
      ELSE [err |-> FALSE, val |-> MakeTargetLines(SplitLines(head.text))]

Digits == <<"0", "1", "2", "3", "4", "5", "6", "7", "8", "9">>

IsDigit(c) == \E i \in 1..10 : Digits[i] = c

DigitVal(c) == (CHOOSE i \in 1..10 : Digits[i] = c) - 1

\* atoiSafe: the number of the leading digits of s
RECURSIVE atoiFrom(_, _)
atoiFrom(n, s) ==
  IF s = <<>> \/ ~IsDigit(Head(s)) THEN n
  ELSE atoiFrom(n * 10 + DigitVal(Head(s)), Tail(s))

\* atoiSafe that reads one digit only
atoiSafe_OneDigit(s) == IF s = <<>> \/ ~IsDigit(Head(s)) THEN 0 ELSE DigitVal(Head(s))

atoiSafe(s) == atoiFrom(0, s)

\* the loop of parseGoCoverProfile over the lines of the file
RECURSIVE CoverLines(_)
CoverLines(lines) ==
  IF lines = <<>> THEN [total |-> 0, covered |-> 0]
  ELSE
    LET ln == TrimSpace(Head(lines))
        rest == CoverLines(Tail(lines))
        parts == Fields(ln)
    IN  IF ln = <<>> \/ HasPrefix(ln, <<"m", "o", "d", "e", ":">>) THEN rest
        ELSE IF Len(parts) < 3 THEN rest
        ELSE LET numStmts == atoiSafe(parts[2])
                 count == atoiSafe(parts[3])
             IN  [total |-> rest.total + numStmts,
                  covered |-> rest.covered + (IF count > 0 THEN numStmts ELSE 0)]

parseGoCoverProfile(rel) ==
  LET data == ReadFile(rel)
  IN  IF data.err THEN [total |-> 0, covered |-> 0]
      ELSE CoverLines(SplitLines(data.text))

\* the decoding of the report documents of FileTable by encoding/json, as
\* the counts parseCucumberJSON derives from the decoded value
CucumberCounts(data) ==
  IF data = <<"[", "{", "}", "]">> THEN [features |-> 1, scenarios |-> 0, steps |-> 0]
  ELSE [features |-> 0, scenarios |-> 0, steps |-> 0]

parseCucumberJSON(rel) ==
  LET data == ReadFile(rel)
  IN  IF data.err \/ Len(data.text) = 0
        THEN [features |-> 0, scenarios |-> 0, steps |-> 0]
        ELSE CucumberCounts(data.text)

(***************************************************************************)
(* The Summary and the writes of a worker                                  *)
(***************************************************************************)
\* a Go map is a function on the set of its keys; m[k] = v
EmptyMap == [k \in {} |-> 0]
MapPut(m, k, v) == [x \in (DOMAIN m) \cup {k} |-> IF x = k THEN v ELSE m[x]]

\* a nil *CoverageSummary and the zero CoverageSummary
NilCoverage ==
  [isNil |-> TRUE, Sources |-> <<>>, TotalStmts |-> 0, CoveredStmts |-> 0,
   Percent |-> [num |-> 0, den |-> 1], HasGoProfile |-> FALSE,
   BDD |-> [FeatureFiles |-> 0, Reports |-> <<>>, Features |-> 0,
            Scenarios |-> 0, Steps |-> 0]]

ZeroCoverage == [NilCoverage EXCEPT !.isNil = FALSE]

\* the Summary Scan constructs
NewSummary ==
  [Root |-> Root, GoModules |-> <<>>, Proto |-> <<>>, MakeTargets |-> <<>>,
   Dockerfiles |-> <<>>, SQLMigrations |-> <<>>, Decisions |-> <<>>,
   EnvExamples |-> <<>>, Licenses |-> <<>>, Readmes |-> <<>>,
   ReadmeSummaries |-> EmptyMap, TechStats |-> EmptyMap, Tree |-> <<>>,
   TestCoverage |-> NilCoverage]

\* sum.TestCoverage after "if sum.TestCoverage == nil { ... }"
EnsureCoverage(tc) == IF tc.isNil THEN ZeroCoverage ELSE tc

\* TRUE when the case of path p writes to the Summary (it takes the mutex
\* for the write)
HasMerge(p, maxBytes) ==
  LET lower == ToLower(p)
      kind == KindOf(lower)
  IN  CASE kind = "gomod" -> ~parseGoMod(Join(Root, p), p).err
        [] kind = "proto" -> ~parseProto(Join(Root, p), p, maxBytes).err
        [] kind = "make" -> ~parseMakeTargets(p, maxBytes).err
        [] kind = "sql" -> Contains(lower, <<"m", "i", "g", "r", "a", "t">>) \/ Contains(lower, <<"s", "c", "h", "e", "m", "a">>)
        [] kind = "decision" -> ~parseDecision(Join(Root, p), p, maxBytes).err
        [] kind = "none" -> FALSE
        [] OTHER -> TRUE

\* the Summary after the write of the case of path p
Merge(s, p, maxBytes) ==
  LET lower == ToLower(p)
      kind == KindOf(lower)
      full == Join(Root, p)
      tc == EnsureCoverage(s.TestCoverage)
  IN  CASE kind = "gomod" ->
             [s EXCEPT !.GoModules = Append(@, parseGoMod(full, p).val)]
        [] kind = "proto" ->
             [s EXCEPT !.Proto = Append(@, parseProto(full, p, maxBytes).val)]
        [] kind = "make" ->
             [s EXCEPT !.MakeTargets = @ \o parseMakeTargets(p, maxBytes).val]
        [] kind = "docker" -> [s EXCEPT !.Dockerfiles = Append(@, p)]
        [] kind = "sql" -> [s EXCEPT !.SQLMigrations = Append(@, p)]
        [] kind = "decision" ->
             [s EXCEPT !.Decisions = Append(@, parseDecision(full, p, maxBytes).val)]
        [] kind = "env" -> [s EXCEPT !.EnvExamples = Append(@, p)]
        [] kind = "license" -> [s EXCEPT !.Licenses = Append(@, p)]
        [] kind = "readme" ->
             IF ~parseReadmeSummary(full, p, maxBytes).err
               THEN [s EXCEPT !.Readmes = Append(@, p),
                              !.ReadmeSummaries =
                                 MapPut(@, p, parseReadmeSummary(full, p, maxBytes).val)]
               ELSE [s EXCEPT !.Readmes = Append(@, p)]
        [] kind = "feature" ->
             [s EXCEPT !.TestCoverage =
                [tc EXCEPT !.BDD.FeatureFiles = @ + 1]]
        [] kind = "coverprofile" ->
             [s EXCEPT !.TestCoverage = [tc EXCEPT !.Sources = Append(@, p)]]
        [] kind \in {"bddjson", "bddxml"} ->
             [s EXCEPT !.TestCoverage = [tc EXCEPT !.BDD.Reports = Append(@, p)]]
        [] OTHER -> s

\* the key of TechStats for a path
TechExt(p) ==
  LET lower == ToLower(p)
      ext == Ext(lower)
  IN  IF ext = <<>> /\ Contains(lower, <<"d", "o", "c", "k", "e", "r", "f", "i", "l", "e">>) THEN <<".", "d", "o", "c", "k", "e", "r", "f", "i", "l", "e">> ELSE ext

\* CountExt counting only the files that some case of the switch takes
CountExt_OnlyClassified(s, p) ==
  LET ext == TechExt(p)
      old == IF ext \in DOMAIN s.TechStats THEN s.TechStats[ext] ELSE 0
  IN  IF KindOf(ToLower(p)) = "none" THEN s
      ELSE [s EXCEPT !.TechStats = MapPut(@, ext, old + 1)]

\* sum.TechStats[ext]++
CountExt(s, p) ==
  LET ext == TechExt(p)
      old == IF ext \in DOMAIN s.TechStats THEN s.TechStats[ext] ELSE 0
  IN  [s EXCEPT !.TechStats = MapPut(@, ext, old + 1)]

(***************************************************************************)
(* The finalize phase of Scan: coverage, pruned tree, sorting              *)
(***************************************************************************)
\* goSources of Scan: the coverage sources with a profile suffix
RECURSIVE GoSources(_)
GoSources(sources) ==
  IF sources = <<>> THEN <<>>
  ELSE LET low == ToLower(Head(sources))
       IN  (IF HasSuffix(low, <<"c", "o", "v", "e", "r", "a", "g", "e", ".", "o", "u", "t">>) \/ HasSuffix(low, <<".", "c", "o", "v", "e", "r", "p", "r", "o", "f", "i", "l", "e">>)
               \/ HasSuffix(low, <<"c", "o", "v", "e", "r", "a", "g", "e", ".", "t", "x", "t">>)
              THEN <<Head(sources)>> ELSE <<>>) \o GoSources(Tail(sources))

RECURSIVE SumProfiles(_)
SumProfiles(sources) ==
  IF sources = <<>> THEN [total |-> 0, covered |-> 0]
  ELSE LET one == parseGoCoverProfile(Head(sources))
           rest == SumProfiles(Tail(sources))
       IN  [total |-> one.total + rest.total, covered |-> one.covered + rest.covered]

RECURSIVE SumReports(_)
SumReports(reports) ==
  IF reports = <<>> THEN [features |-> 0, scenarios |-> 0, steps |-> 0]
  ELSE LET one == parseCucumberJSON(Head(reports))
           rest == SumReports(Tail(reports))
       IN  [features |-> one.features + rest.features,
            scenarios |-> one.scenarios + rest.scenarios,
            steps |-> one.steps + rest.steps]

\* "Consolidar cobertura": sum.TestCoverage after the coverage block
ConsolidateCoverage(tc) ==
  IF tc.isNil THEN tc
  ELSE
    LET goSources == GoSources(tc.Sources)
        prof == SumProfiles(goSources)
        withGo ==
          IF Len(goSources) > 0 /\ prof.total > 0
            THEN [tc EXCEPT !.HasGoProfile = TRUE,
                            !.TotalStmts = prof.total,
                            !.CoveredStmts = prof.covered,
                            !.Percent = [num |-> prof.covered * 100, den |-> prof.total]]
            ELSE tc
        bdd == SumReports(tc.BDD.Reports)
    IN  IF Len(tc.BDD.Reports) > 0 /\ bdd.features + bdd.scenarios + bdd.steps > 0
          THEN [withGo EXCEPT !.BDD.Features = bdd.features,
                              !.BDD.Scenarios = bdd.scenarios,
                              !.BDD.Steps = bdd.steps]
          ELSE withGo

\* TreeDepthOf of a buildTree that takes the depth as it is given
TreeDepthOf_NoDefault(depth) == depth

\* depth of buildTree after its default
TreeDepthOf(depth) == IF depth <= 0 THEN 3 ELSE depth

\* the entries of directory dir that walk of buildTree keeps
TreeKeeps(files, ignores, exclude, rel) ==
  LET name == Base(rel)
  IN  /\ ~(HasPrefix(name, <<".">>) /\ name # <<".", "g", "i", "t", "h", "u", "b">>)
      /\ ~GitIgnoreMatch(ignores, rel)
      /\ IF rel \in DirsOf(files) THEN ~MatchAny(exclude, rel \o <<"/">>)
         ELSE ~MatchAny(exclude, rel)

\* walk and render of buildTree: the nodes of the tree under dir in
\* pre-order, children sorted by name, each with its level and its path
RECURSIVE TreeNodes(_, _, _, _, _, _)
RECURSIVE TreeChildren(_, _, _, _, _, _)
TreeNodes(files, ignores, exclude, dir, d, level) ==
  LET node == [name |-> IF dir = <<>> THEN Base(Root) ELSE Base(dir),
               level |-> level, rel |-> dir]
  IN  IF d = 0 THEN <<node>>
      ELSE <<node>> \o
           TreeChildren(files, ignores, exclude, d, level,
             SortedSeq({e \in files \cup DirsOf(files) :
                          /\ e # <<>>
                          /\ Parent(e) = dir
                          /\ TreeKeeps(files, ignores, exclude, e)}))

TreeChildren(files, ignores, exclude, d, level, children) ==
  IF children = <<>> THEN <<>>
  ELSE LET c == Head(children)
           here == IF c \in DirsOf(files)
                     THEN TreeNodes(files, ignores, exclude, c, d - 1, level + 1)
                     ELSE <<[name |-> Base(c), level |-> level + 1, rel |-> c]>>
       IN  here \o TreeChildren(files, ignores, exclude, d, level, Tail(children))

RECURSIVE Indent(_)
\* Indent of a render that adds one space per level
Indent_OneSpace(level) == [i \in 1..level |-> " "]

\* prefix of a line at a level: two spaces per level
Indent(level) == IF level = 0 THEN <<>> ELSE <<" ", " ">> \o Indent(level - 1)

\* the nodes of buildTree(root, depth, exclude)
buildTreeNodes(files, ignores, depth, exclude) ==
  TreeNodes(files, ignores, exclude, <<>>, TreeDepthOf(depth), 0)

\* buildTree: the lines of the pruned tree
buildTree(files, ignores, depth, exclude) ==
  LET nodes == buildTreeNodes(files, ignores, depth, exclude)
  IN  [i \in 1..Len(nodes) |-> Indent(nodes[i].level) \o nodes[i].name]

\* sort.Slice(sum.GoModules, ...) by Path
RECURSIVE InsertModule(_, _)
InsertModule(x, s) ==
  IF s = <<>> THEN <<x>>
  ELSE IF StrLess(x.Path, Head(s).Path) THEN <<x>> \o s
  ELSE <<Head(s)>> \o InsertModule(x, Tail(s))

RECURSIVE SortModules(_)
SortModules(s) ==
  IF s = <<>> THEN <<>> ELSE InsertModule(Head(s), SortModules(Tail(s)))

\* "Sort outputs" of Scan
SortOutputs(s) ==
  [s EXCEPT !.GoModules = SortModules(@),
            !.MakeTargets = SortStrings(@),
            !.Dockerfiles = SortStrings(@),
            !.SQLMigrations = SortStrings(@),
            !.EnvExamples = SortStrings(@),
            !.Licenses = SortStrings(@),
            !.Readmes = SortStrings(@)]

(***************************************************************************)
(* package render                                                          *)
(***************************************************************************)
\* x := list; if len(x) > n { x = append(x[:n], "...") }: the list that is
\* written out
Shortened(list, n) ==
  IF Len(list) > n THEN Append(SubSeq(list, 1, n), Ellipsis) ELSE list

\* the same statement as the slice list sees it afterwards: x[:n] has the
\* array of list and room in it, so append stores the marker in place
AfterShortened(list, n) ==
  IF Len(list) > n THEN [list EXCEPT ![n + 1] = Ellipsis] ELSE list

\* BuildArtifacts: the JSON of the Summary, taken first; of the Markdown the
\* lines made from the lists it cuts; and the Summary as the call leaves it
BuildArtifacts(s) ==
  LET tc == s.TestCoverage
      listsReports == /\ ~tc.isNil
                      /\ tc.BDD.FeatureFiles > 0 \/ Len(tc.BDD.Reports) > 0
                      /\ Len(tc.BDD.Reports) > 0
  IN  [json |-> s,
       markdown |->
         [reports |-> IF listsReports
                        THEN <<JoinStrings(Shortened(tc.BDD.Reports, ReportsLimit), <<",", " ">>)>>
                        ELSE <<>>,
          rpcs |-> [i \in 1..Len(s.Proto) |->
                      JoinStrings(Shortened(s.Proto[i].RPCs, RPCsLimit), <<",", " ">>)]],
       sum |->
         [s EXCEPT
            !.TestCoverage =
               IF listsReports
                 THEN [tc EXCEPT !.BDD.Reports = AfterShortened(@, ReportsLimit)]
                 ELSE tc,
            !.Proto = [i \in 1..Len(s.Proto) |->
                         [s.Proto[i] EXCEPT !.RPCs = AfterShortened(@, RPCsLimit)]]]]
(***************************************************************************)
(* The state of one run of Scan                                            *)
(***************************************************************************)
VARIABLES
  files,      \* the files of the scanned tree (root-relative paths)
  ignores,    \* the paths the GitIgnoreMatcher of the tree matches
  cfg,        \* the Config passed to Scan
  artifacts,  \* the results of the calls of BuildArtifacts so far
  cancelled,  \* ctx.Done() is closed
  pc,         \* the position of the control thread in Scan
  threads,    \* cfg.Threads after its default, the capacity of sem
  paths,      \* the candidate list of the walk
  next,       \* the index in paths of the next candidate of the loop
  sem,        \* the number of slots taken in the channel sem
  wg,         \* the counter of the WaitGroup
  mu,         \* the worker holding the mutex, 0 when it is unlocked
  wpc,        \* the position of the worker of each candidate
  sum,        \* the Summary
  treeNodes,  \* the nodes behind the lines of sum.Tree
  late,       \* the number of workers started after cancellation
  returned    \* the result of Scan: "none" before it returns, then its error

vars == <<files, ignores, cfg, matchBase, artifacts, cancelled, pc, threads, paths, next, sem, wg,
          mu, wpc, sum, treeNodes, late, returned>>

\* the variables of the control flow and of the synchronisation objects
ctl == <<pc, next, sem, wg, mu, wpc, returned>>

\* the other variables: the inputs, the signal and the data of the scan
data == <<files, ignores, cfg, matchBase, artifacts, cancelled, threads, paths, sum, treeNodes, late>>

Config(t, inc, exc, depth) ==
  [Threads |-> t, MaxFileBytes |-> MaxFileBytes, IncludeGlobsCSV |-> inc,
   ExcludeGlobsCSV |-> exc, TreeDepth |-> depth]

\* the Threads values of the modelled runs
ThreadChoices == {-1, 0} \cup (1..MaxThreads)

\* the configurations of the runs of Spec
ScanConfigs == {Config(t, <<>>, <<>>, 0) : t \in ThreadChoices}

\* the state when Scan is called: a tree, a Config, and the definition of
\* MatchAny the build has linked
Start(trees, configs, matchDefs) ==
  /\ files \in trees
  /\ ignores = {f \in files : Entry(f).ignored}
  /\ cfg \in configs
  /\ matchBase \in matchDefs
  /\ artifacts = <<>>
  /\ cancelled = FALSE
  /\ pc = "walk"
  /\ threads = 0
  /\ paths = <<>>
  /\ next = 1
  /\ sem = 0
  /\ wg = 0
  /\ mu = 0
  /\ wpc = [w \in 1..Cardinality(files) |-> "idle"]
  /\ sum = NewSummary
  /\ treeNodes = <<>>
  /\ late = 0
  /\ returned = "none"

\* These runs pass no globs of their own and no path of their trees has a
\* base name that a default glob matches, so both definitions of MatchAny
\* give the same runs; one is taken.
Init == Start(Trees, ScanConfigs, {TRUE})

\* the workers of a scan: one per candidate, "idle" until the loop starts it
Workers == 1..Len(paths)

(***************************************************************************)
(* Every action is the conjunction of its part on ctl (its guard and its   *)
(* effect on the control flow and the synchronisation objects) and of its  *)
(* part on the data.                                                       *)
(***************************************************************************)

(***************************************************************************)
(* The control thread                                                      *)
(***************************************************************************)
\* the signal handler of main closes ctx.Done()
Cancel ==
  /\ ~cancelled
  /\ returned = "none"
  /\ cancelled' = TRUE
  /\ UNCHANGED <<files, ignores, cfg, matchBase, artifacts, threads, paths, sum, treeNodes, late>>
  /\ UNCHANGED ctl

WalkCtl ==
  /\ pc = "walk"
  /\ pc' = "loop"
  /\ UNCHANGED <<next, sem, wg, mu, wpc, returned>>

\* Scan up to the end of the walk: the default of Threads, the new Summary
\* and the candidate list
Walk ==
  /\ WalkCtl
  /\ threads' = EffectiveThreads(cfg.Threads)
  /\ sum' = NewSummary
  /\ paths' = WalkPaths(files, ignores, ExcludeGlobs(cfg.ExcludeGlobsCSV),
                        splitCSV(cfg.IncludeGlobsCSV))
  /\ UNCHANGED <<files, ignores, cfg, matchBase, artifacts, cancelled, treeNodes, late>>

\* CtxDone of a loop that never looks at the signal
CtxDone_Never(closed) == FALSE

\* the select of the loop takes the case <-ctx.Done()
CtxDone(closed) == closed

\* the loop has passed the last candidate
LoopEnd ==
  /\ pc = "loop"
  /\ next > Len(paths)
  /\ pc' = "wait"
  /\ UNCHANGED <<next, sem, wg, mu, wpc, returned>>
  /\ UNCHANGED data

\* case <-ctx.Done(): break loop
LoopCancelled ==
  /\ pc = "loop"
  /\ next <= Len(paths)
  /\ CtxDone(cancelled)
  /\ pc' = "wait"
  /\ UNCHANGED <<next, sem, wg, mu, wpc, returned>>
  /\ UNCHANGED data

\* LoopAdd of a loop without the select: it goes on whatever the signal
LoopAdd_Unchecked ==
  /\ pc = "loop"
  /\ next <= Len(paths)
  /\ wg' = wg + 1
  /\ pc' = "acquire"
  /\ UNCHANGED <<next, sem, mu, wpc, returned>>
  /\ UNCHANGED data

\* default: of the select, then wg.Add(1)
LoopAdd ==
  /\ pc = "loop"
  /\ next <= Len(paths)
  /\ ~CtxDone(cancelled)
  /\ wg' = wg + 1
  /\ pc' = "acquire"
  /\ UNCHANGED <<next, sem, mu, wpc, returned>>
  /\ UNCHANGED data

\* SemHasRoom that admits one sender more than the capacity
SemHasRoom_OffByOne(taken, capacity) == taken <= capacity

\* sem <- struct{}{} can proceed: the channel has a free slot
SemHasRoom(taken, capacity) == taken < capacity

AcquireCtl ==
  /\ pc = "acquire"
  /\ SemHasRoom(sem, threads)
  /\ sem' = sem + 1
  /\ wpc' = [wpc EXCEPT ![next] = "run"]
  /\ next' = next + 1
  /\ pc' = "loop"
  /\ UNCHANGED <<wg, mu, returned>>

\* sem <- struct{}{} and the go statement
Acquire ==
  /\ AcquireCtl
  /\ late' = IF cancelled THEN late + 1 ELSE late
  /\ UNCHANGED <<files, ignores, cfg, matchBase, artifacts, cancelled, threads, paths, sum, treeNodes>>

\* WaitReady of a wait that never blocks
WaitReady_Always(counter) == TRUE

\* wg.Wait() can return
WaitReady(counter) == counter = 0

WaitWorkers ==
  /\ pc = "wait"
  /\ WaitReady(wg)
  /\ pc' = "coverage"
  /\ UNCHANGED <<next, sem, wg, mu, wpc, returned>>
  /\ UNCHANGED data

CoverageCtl ==
  /\ pc = "coverage"
  /\ pc' = "tree"
  /\ UNCHANGED <<next, sem, wg, mu, wpc, returned>>

\* the coverage block of Scan
Coverage ==
  /\ CoverageCtl
  /\ sum' = [sum EXCEPT !.TestCoverage = ConsolidateCoverage(@)]
  /\ UNCHANGED <<files, ignores, cfg, matchBase, artifacts, cancelled, threads, paths, treeNodes, late>>

BuildTreeCtl ==
  /\ pc = "tree"
  /\ pc' = "sort"
  /\ UNCHANGED <<next, sem, wg, mu, wpc, returned>>

\* sum.Tree = buildTree(cfg.Root, cfg.TreeDepth, excludeGlobs)
BuildTree ==
  /\ BuildTreeCtl
  /\ sum' = [sum EXCEPT !.Tree =
               buildTree(files, ignores, cfg.TreeDepth,
                         ExcludeGlobs(cfg.ExcludeGlobsCSV))]
  /\ treeNodes' = buildTreeNodes(files, ignores, cfg.TreeDepth,
                                 ExcludeGlobs(cfg.ExcludeGlobsCSV))
  /\ UNCHANGED <<files, ignores, cfg, matchBase, artifacts, cancelled, threads, paths, late>>

SortAndReturnCtl ==
  /\ pc = "sort"
  /\ returned' = "nil"
  /\ pc' = "done"
  /\ UNCHANGED <<next, sem, wg, mu, wpc>>

\* the sorts and "return sum, nil"
SortAndReturn ==
  /\ SortAndReturnCtl
  /\ sum' = SortOutputs(sum)
  /\ UNCHANGED <<files, ignores, cfg, matchBase, artifacts, cancelled, threads, paths, treeNodes, late>>

(***************************************************************************)
(* The worker of candidate w (the goroutine of the loop)                   *)
(***************************************************************************)
ClassifyCtl(w) ==
  /\ wpc[w] = "run"
  /\ \E to \in {"merge", "stat"} : wpc' = [wpc EXCEPT ![w] = to]
  /\ UNCHANGED <<pc, next, sem, wg, mu, returned>>

\* the switch up to the write: the file is read without the mutex; a case
\* that has something to write goes on to take the mutex
Classify(w) ==
  /\ ClassifyCtl(w)
  /\ (wpc'[w] = "merge") = HasMerge(paths[w], cfg.MaxFileBytes)
  /\ UNCHANGED data

\* MutexFree of a lock that never blocks
MutexFree_Always(holder) == TRUE

\* mu.Lock() can return
MutexFree(holder) == holder = 0

LockMerge(w) ==
  /\ wpc[w] = "merge"
  /\ MutexFree(mu)
  /\ mu' = w
  /\ wpc' = [wpc EXCEPT ![w] = "merging"]
  /\ UNCHANGED <<pc, next, sem, wg, returned>>
  /\ UNCHANGED data

WriteMergeCtl(w) ==
  /\ wpc[w] = "merging"
  /\ mu' = 0
  /\ wpc' = [wpc EXCEPT ![w] = "stat"]
  /\ UNCHANGED <<pc, next, sem, wg, returned>>

\* the write of the case and mu.Unlock()
WriteMerge(w) ==
  /\ WriteMergeCtl(w)
  /\ sum' = Merge(sum, paths[w], cfg.MaxFileBytes)
  /\ UNCHANGED <<files, ignores, cfg, matchBase, artifacts, cancelled, threads, paths, treeNodes, late>>

LockStat(w) ==
  /\ wpc[w] = "stat"
  /\ MutexFree(mu)
  /\ mu' = w
  /\ wpc' = [wpc EXCEPT ![w] = "counting"]
  /\ UNCHANGED <<pc, next, sem, wg, returned>>
  /\ UNCHANGED data

WriteStatCtl(w) ==
  /\ wpc[w] = "counting"
  /\ mu' = 0
  /\ wpc' = [wpc EXCEPT ![w] = "release"]
  /\ UNCHANGED <<pc, next, sem, wg, returned>>

\* sum.TechStats[ext]++ and mu.Unlock()
WriteStat(w) ==
  /\ WriteStatCtl(w)
  /\ sum' = CountExt(sum, paths[w])
  /\ UNCHANGED <<files, ignores, cfg, matchBase, artifacts, cancelled, threads, paths, treeNodes, late>>

\* the slots of sem after the deferred <-sem
SemAfterRelease(taken) == taken - 1

\* defer func() { <-sem }()
Release(w) ==
  /\ wpc[w] = "release"
  /\ sem' = SemAfterRelease(sem)
  /\ wpc' = [wpc EXCEPT ![w] = "signal"]
  /\ UNCHANGED <<pc, next, wg, mu, returned>>
  /\ UNCHANGED data

\* defer wg.Done()
Done(w) ==
  /\ wpc[w] = "signal"
  /\ wg' = wg - 1
  /\ wpc' = [wpc EXCEPT ![w] = "finished"]
  /\ UNCHANGED <<pc, next, sem, mu, returned>>
  /\ UNCHANGED data

Control ==
  \/ Walk
  \/ LoopEnd
  \/ LoopCancelled
  \/ LoopAdd
  \/ Acquire
  \/ WaitWorkers
  \/ Coverage
  \/ BuildTree
  \/ SortAndReturn

Worker(w) ==
  \/ Classify(w)
  \/ LockMerge(w)
  \/ WriteMerge(w)
  \/ LockStat(w)
  \/ WriteStat(w)
  \/ Release(w)
  \/ Done(w)

\* the calls of BuildArtifacts on one Summary
MaxRenders == 2

\* render.BuildArtifacts(sum), as main calls it once Scan has returned
Render ==
  /\ returned = "nil"
  /\ Len(artifacts) < MaxRenders
  /\ artifacts' = Append(artifacts, [json |-> BuildArtifacts(sum).json,
                                     markdown |-> BuildArtifacts(sum).markdown])
  /\ sum' = BuildArtifacts(sum).sum
  /\ UNCHANGED <<files, ignores, cfg, matchBase, cancelled, threads, paths, treeNodes, late>>
  /\ UNCHANGED ctl

Next ==
  \/ Cancel
  \/ Control
  \/ \E w \in Workers : Worker(w)
  \/ Render

Spec == Init /\ [][Next]_vars

\* the steps of the program as far as ctl goes: the ctl part of every action
\* of the control thread and of the workers.  The data part of an action
\* never restricts the step, so a step of ProgramStep is possible exactly
\* when a step of the program is.
ProgramStep ==
  \/ WalkCtl
  \/ LoopEnd
  \/ LoopCancelled
  \/ LoopAdd
  \/ AcquireCtl
  \/ WaitWorkers
  \/ CoverageCtl
  \/ BuildTreeCtl
  \/ SortAndReturnCtl
  \/ \E w \in Workers :
       \/ ClassifyCtl(w)
       \/ LockMerge(w)
       \/ WriteMergeCtl(w)
       \/ LockStat(w)
       \/ WriteStatCtl(w)
       \/ Release(w)
       \/ Done(w)

\* the scheduler runs a goroutine whenever one can take a step
Fairness == WF_ctl(ProgramStep)

LiveSpec == Spec /\ Fairness

\* the runs that vary the tree and the glob lists, with one worker slot
WalkFiles ==
  {<<"t", "m", "p", "/", "x", ".", "g", "o">>, <<"a", "/", "t", "m", "p", "/", "y", ".", "g", "o">>, <<"a", "/", "t", "m", "p", "/", "z", "/", "L", "I", "C", "E", "N", "S", "E">>, <<"a", "/", "m", ".", "g", "o">>, <<"m", "a", "i", "n", ".", "g", "o">>,
   <<"a", "/", "b", ".", "p", "n", "g">>, <<"s", "k", "i", "p", ".", "l", "o", "g">>}

WalkTrees == {t \in SUBSET WalkFiles : Cardinality(t) <= MaxFiles}

ExcludeChoices == {<<>>, <<"t", "m", "p", "/">>, <<" ", "a", "/", "t", "m", "p", "/", " ", ",", "m", "*">>, <<"*", "/", "t", "m", "p", "/">>, <<"z", "/">>}

IncludeChoices == {<<>>, <<"*", ".", "p", "n", "g", ",", " ", "m", ".", "g", "o", ",", " ", "x", ".", "g", "o">>}

DepthChoices == {0, 1, 2}

WalkConfigs ==
  {Config(1, inc, exc, depth) :
     inc \in IncludeChoices, exc \in ExcludeChoices, depth \in DepthChoices}

InitWalk == Start(WalkTrees, WalkConfigs, BOOLEAN)

WalkSpec == InitWalk /\ [][Next]_vars

\* the runs that vary the documents the extractors read and the byte cap,
\* with one worker slot
ByteCapChoices == {0, MaxFileBytes, DefaultMaxFileBytes}

ExtractConfigs ==
  {[Config(1, <<>>, <<>>, 0) EXCEPT !.MaxFileBytes = m] : m \in ByteCapChoices}

InitExtract == Start(ExtractTrees, ExtractConfigs, BOOLEAN)

ExtractSpec == InitExtract /\ [][Next]_vars

\* the runs that vary the depth of the tree, with one worker slot
TreeFiles == {TreeTable[i].path : i \in 1..Len(TreeTable)} \cup {<<".", "e", "n", "v">>}

TreeTrees == {t \in SUBSET TreeFiles : Cardinality(t) <= MaxFiles}

TreeDepthChoices == {-1, 0, 1, 2, 4}

TreeExcludeChoices == {<<>>, <<"a", "/", "b", "/">>}

TreeConfigs ==
  {Config(1, <<>>, exc, depth) :
     exc \in TreeExcludeChoices, depth \in TreeDepthChoices}

InitTree == Start(TreeTrees, TreeConfigs, BOOLEAN)

TreeSpec == InitTree /\ [][Next]_vars

\* the runs that collect many BDD reports, with one worker slot and the
\* default byte cap
RenderTrees ==
  { {ReportTable[i].path : i \in 1..n} \cup extra :
      n \in 0..MaxReports, extra \in SUBSET {ReportTable[MaxReports + 1].path} }

RenderConfigs == {[Config(1, <<>>, <<>>, 0) EXCEPT !.MaxFileBytes = DefaultMaxFileBytes]}

InitRender == Start(RenderTrees, RenderConfigs, {TRUE})

RenderSpec == InitRender /\ [][Next]_vars
(***************************************************************************)
(* Vocabulary of the properties                                            *)
(***************************************************************************)
Range(s) == {s[i] : i \in 1..Len(s)}

\* the workers the loop has started
Dispatched == {w \in Workers : wpc[w] # "idle"}

\* the workers that have started and have not yet given their slot back
InFlight ==
  {w \in Workers : wpc[w] \in {"run", "merge", "merging", "stat", "counting", "release"}}

\* the loop ran to the end of the candidate list
LoopComplete == next > Len(paths)

\* the positions of the finalize phase and after it
FinalPhase == {"coverage", "tree", "sort", "done"}

\* the sum of the counts of a histogram
RECURSIVE SumCounts(_)
SumCounts(m) ==
  IF DOMAIN m = {} THEN 0
  ELSE LET k == CHOOSE x \in DOMAIN m : TRUE
       IN  m[k] + SumCounts([x \in (DOMAIN m) \ {k} |-> m[x]])

\* the worker count the configuration asks for
WorkerCount == IF cfg.Threads <= 0 THEN NumCPU ELSE cfg.Threads

\* the candidates of a kind
OfKind(k) == {p \in Range(paths) : KindOf(ToLower(p)) = k}

\* the categorical collections of a Summary, as sets
Collections(s) ==
  [GoModules |-> Range(s.GoModules), Proto |-> Range(s.Proto),
   MakeTargets |-> Range(s.MakeTargets), Dockerfiles |-> Range(s.Dockerfiles),
   SQLMigrations |-> Range(s.SQLMigrations), Decisions |-> Range(s.Decisions),
   EnvExamples |-> Range(s.EnvExamples), Licenses |-> Range(s.Licenses),
   Readmes |-> Range(s.Readmes)]

CollectionNames ==
  {"GoModules", "Proto", "MakeTargets", "Dockerfiles", "SQLMigrations",
   "Decisions", "EnvExamples", "Licenses", "Readmes"}

\* what a set of candidates contributes to each collection
ContentsOf(cands) ==
  [GoModules |-> {parseGoMod(Join(Root, p), p).val :
                    p \in {q \in cands \cap OfKind("gomod") : Entry(q).ok}},
   Proto |-> {parseProto(Join(Root, p), p, cfg.MaxFileBytes).val :
                p \in {q \in cands \cap OfKind("proto") : Entry(q).ok}},
   MakeTargets |-> UNION {Range(parseMakeTargets(p, cfg.MaxFileBytes).val) :
                            p \in {q \in cands \cap OfKind("make") : Entry(q).ok}},
   Dockerfiles |-> cands \cap OfKind("docker"),
   SQLMigrations |-> {p \in cands \cap OfKind("sql") :
                        \/ Contains(ToLower(p), <<"m", "i", "g", "r", "a", "t">>)
                        \/ Contains(ToLower(p), <<"s", "c", "h", "e", "m", "a">>)},
   Decisions |-> {parseDecision(Join(Root, p), p, cfg.MaxFileBytes).val :
                    p \in {q \in cands \cap OfKind("decision") : Entry(q).ok}},
   EnvExamples |-> cands \cap OfKind("env"),
   Licenses |-> cands \cap OfKind("license"),
   Readmes |-> cands \cap OfKind("readme")]

\* the collections of an uncancelled scan of the tree
FullCollections == ContentsOf(Range(paths))

\* the Summary of the schedule that runs the workers one after the other in
\* the order of the candidate list
RECURSIVE MergeAll(_, _, _)
MergeAll(s, cands, maxBytes) ==
  IF cands = <<>> THEN s
  ELSE MergeAll(CountExt(IF HasMerge(Head(cands), maxBytes)
                           THEN Merge(s, Head(cands), maxBytes) ELSE s,
                         Head(cands)),
                Tail(cands), maxBytes)

SequentialSummary == SortOutputs(MergeAll(NewSummary, paths, cfg.MaxFileBytes))

\* the categorical collections of a Summary, as the sequences they are
Sequences(s) ==
  <<s.GoModules, s.Proto, s.MakeTargets, s.Dockerfiles, s.SQLMigrations,
    s.Decisions, s.EnvExamples, s.Licenses, s.Readmes>>

(***************************************************************************)
(* C1                                                                      *)
(***************************************************************************)
\* C1 as stated: whenever Scan has returned, the counts of TechStats add up
\* to the number of candidate paths of the walk.
C1_HistogramCountsAllCandidates ==
  returned # "none" => SumCounts(sum.TechStats) = Len(paths)

\* C1 amended: when Scan has returned, the counts of TechStats add up to the
\* number of candidates the loop dispatched; that is the whole candidate
\* list whenever the loop was not stopped by the cancellation signal.
C1_HistogramCountsDispatched ==
  returned # "none" =>
    /\ SumCounts(sum.TechStats) = Cardinality(Dispatched)
    /\ LoopComplete => SumCounts(sum.TechStats) = Len(paths)

\* a returned scan of a tree with an excluded file, all of whose candidates
\* (at least two) were counted
C1_Witness ==
  /\ returned = "nil"
  /\ LoopComplete
  /\ Len(paths) >= 2
  /\ Len(paths) < Cardinality(files)
  /\ SumCounts(sum.TechStats) = Len(paths)

(***************************************************************************)
(* C2                                                                      *)
(***************************************************************************)
\* C2: for a fixed tree and configuration every categorical collection of
\* the returned Summary is the same ordered sequence in every interleaving
\* of the workers: an uncancelled scan returns the sequences that the
\* schedule running the workers one after the other returns.
C2_SameSequencesInEveryInterleaving ==
  (returned = "nil" /\ ~cancelled) => Sequences(sum) = Sequences(SequentialSummary)

(***************************************************************************)
(* C3                                                                      *)
(***************************************************************************)
\* C3: every categorical collection of a returned Summary, cancelled or not,
\* is a subset of the collection an uncancelled scan of the same tree
\* returns; the uncancelled scan returns exactly the contributions of all
\* candidates, a cancelled one those of the dispatched candidates.
C3_CancelledIsSubset ==
  returned = "nil" =>
    LET got == Collections(sum)
        full == FullCollections
        part == ContentsOf({paths[w] : w \in Dispatched})
    IN  /\ got.GoModules \subseteq full.GoModules
        /\ got.Proto \subseteq full.Proto
        /\ got.MakeTargets \subseteq full.MakeTargets
        /\ got.Dockerfiles \subseteq full.Dockerfiles
        /\ got.SQLMigrations \subseteq full.SQLMigrations
        /\ got.Decisions \subseteq full.Decisions
        /\ got.EnvExamples \subseteq full.EnvExamples
        /\ got.Licenses \subseteq full.Licenses
        /\ got.Readmes \subseteq full.Readmes
        /\ got = part
        /\ LoopComplete => got = full

\* a cancelled scan that returned some entries and lacks others of the
\* uncancelled scan
C3_Witness ==
  /\ returned = "nil"
  /\ cancelled
  /\ ~LoopComplete
  /\ LET got == Collections(sum)
         full == FullCollections
     IN  \E c \in CollectionNames : got[c] # {} /\ got[c] # full[c]

(***************************************************************************)
(* C4                                                                      *)
(***************************************************************************)
\* C4: under fair scheduling Scan terminates for every candidate list and
\* every Threads value, zero and negative included, cancelled or not: it
\* eventually returns, and by then every started worker has finished and
\* given its slot back.
C4_ScanTerminates ==
  <>(/\ returned = "nil"
     /\ sem = 0
     /\ \A w \in Workers : wpc[w] \in {"idle", "finished"})

\* a returned scan with a non-positive Threads value that was cancelled
\* while workers were running
C4_Witness ==
  /\ returned = "nil"
  /\ cfg.Threads <= 0
  /\ cancelled
  /\ Cardinality(Dispatched) >= 2
  /\ sem = 0

(***************************************************************************)
(* C5                                                                      *)
(***************************************************************************)
\* C5: at every moment at most WorkerCount workers have started and not yet
\* given their slot back; every such worker holds one slot of the semaphore
\* (it was started after the slot was taken), and a worker that ended has
\* given back exactly the one slot.
C5_BoundedWorkers ==
  /\ Cardinality(InFlight) <= WorkerCount
  /\ sem = Cardinality(InFlight)

\* the pool is full: two workers run at once and fill all slots while a
\* candidate is waiting for a slot
C5_Witness ==
  /\ Cardinality(InFlight) = WorkerCount
  /\ Cardinality(InFlight) >= 2
  /\ pc = "acquire"

(***************************************************************************)
(* C6                                                                      *)
(***************************************************************************)
\* a worker is inside a write to the Summary
Writing(w) == wpc[w] \in {"merging", "counting"}

\* C6: a worker that is inside a write to the Summary holds the mutex, so no
\* two workers are inside a write at once, and every change of the Summary
\* during the concurrent phase is a step of the worker that holds the mutex.
C6_WritesUnderMutex ==
  /\ [](\A w \in Workers : Writing(w) => mu = w)
  /\ [][(sum' # sum /\ pc \in {"loop", "acquire", "wait"}) =>
          (mu \in Workers /\ Writing(mu) /\ mu' = 0)]_vars

\* one worker writes while another one waits for the mutex
C6_Witness ==
  \E w, v \in Workers :
    /\ w # v
    /\ Writing(w)
    /\ mu = w
    /\ wpc[v] \in {"merge", "stat"}

(***************************************************************************)
(* C7                                                                      *)
(***************************************************************************)
\* C7: throughout the finalize phase every dispatched worker has finished and
\* its histogram count is in the Summary; when the phase starts (wg.Wait has
\* returned) the collection entry of every dispatched path is in the Summary,
\* also when the scan was cancelled after the dispatch; from then on no
\* worker takes a step.
C7_MergedBeforeFinalize ==
  /\ [](pc \in FinalPhase =>
          /\ \A w \in Dispatched : wpc[w] = "finished"
          /\ wg = 0
          /\ SumCounts(sum.TechStats) = Cardinality(Dispatched))
  /\ [](pc = "coverage" =>
          LET part == ContentsOf({paths[w] : w \in Dispatched})
              got == Collections(sum)
          IN  \A c \in CollectionNames : part[c] \subseteq got[c])
  /\ [][(pc \in FinalPhase) => (wpc' = wpc)]_vars

\* the finalize phase of a scan that was cancelled with two workers
\* dispatched and candidates left
C7_Witness ==
  /\ pc = "tree"
  /\ cancelled
  /\ ~LoopComplete
  /\ Cardinality(Dispatched) >= 2
  /\ \E c \in CollectionNames : Collections(sum)[c] # {}

(***************************************************************************)
(* C8                                                                      *)
(***************************************************************************)
\* C8 as stated: once the cancellation signal is raised no candidate is
\* dispatched to a worker, and Scan returns the Summary with no error.
C8_NoDispatchAfterSignal ==
  /\ [][cancelled => (Dispatched' = Dispatched)]_vars
  /\ [](returned \in {"none", "nil"})

\* C8 amended: once the check of the loop has seen the cancellation signal no
\* candidate is dispatched; after the signal a candidate is dispatched only
\* when its check had passed before the signal was raised, which is at most
\* one candidate of a scan; Scan returns the Summary with no error.
C8_NoDispatchAfterObservedSignal ==
  /\ [][(cancelled /\ pc # "acquire") => (Dispatched' = Dispatched)]_vars
  /\ [][(pc # "acquire" /\ pc' = "acquire") => (~cancelled)]_vars
  /\ [](late <= 1)
  /\ [](returned \in {"none", "nil"})

\* a cancelled scan that returned without error, stopped before the end of
\* the candidate list, with one worker started after the signal
C8_Witness ==
  /\ returned = "nil"
  /\ cancelled
  /\ ~LoopComplete
  /\ late = 1

(***************************************************************************)
(* C9                                                                      *)
(***************************************************************************)
\* the globs the user asked to exclude
UserExcludes == splitCSV(cfg.ExcludeGlobsCSV)

\* glob g ends in a slash and names directory d, by its path or by its name
NamesDir(g, d) ==
  /\ HasSuffix(g, <<"/">>)
  /\ Match(g, d \o <<"/">>) \/ Match(g, Base(d) \o <<"/">>)

\* the directories of the tree that a trailing-slash glob of the user names
ExcludedDirs ==
  {d \in DirsOf(files) : \E i \in 1..Len(UserExcludes) : NamesDir(UserExcludes[i], d)}

\* path p is directory d or lies in its subtree
Under(d, p) == p = d \/ HasPrefix(p, d \o <<"/">>)

\* C9: a directory that a trailing-slash glob of the exclude list names, at
\* whatever depth it sits, is absent with its whole subtree from the
\* candidate list and from the pruned tree.
C9_ExcludedDirAbsentAtAnyDepth ==
  returned = "nil" =>
    \A d \in ExcludedDirs :
      /\ \A i \in 1..Len(paths) : ~Under(d, paths[i])
      /\ \A i \in 1..Len(treeNodes) : ~Under(d, treeNodes[i].rel)

(***************************************************************************)
(* C10                                                                     *)
(***************************************************************************)
\* the paths stored in the entries of a Summary
StoredPaths(s) ==
  {s.GoModules[i].Path : i \in 1..Len(s.GoModules)}
    \cup {s.Proto[i].File : i \in 1..Len(s.Proto)}
    \cup {s.Decisions[i].File : i \in 1..Len(s.Decisions)}
    \cup {s.ReadmeSummaries[k].File : k \in DOMAIN s.ReadmeSummaries}
    \cup DOMAIN s.ReadmeSummaries
    \cup Range(s.Dockerfiles) \cup Range(s.SQLMigrations)
    \cup Range(s.EnvExamples) \cup Range(s.Licenses) \cup Range(s.Readmes)
    \cup Range(s.TestCoverage.Sources) \cup Range(s.TestCoverage.BDD.Reports)

\* C10: every path stored in the returned Summary, the path field of a
\* module manifest, schema file, decision record and readme summary
\* included, is a root-relative path of the candidate list of the walk.
C10_StoredPathsAreRelative ==
  returned = "nil" => StoredPaths(sum) \subseteq Range(paths)

(***************************************************************************)
(* C11                                                                     *)
(***************************************************************************)
\* the condition of each case of the switch, on the lower-cased path
Matches(k, lower) ==
  CASE k = "gomod" -> HasSuffix(lower, <<"g", "o", ".", "m", "o", "d">>)
    [] k = "proto" -> HasSuffix(lower, <<".", "p", "r", "o", "t", "o">>)
    [] k = "make" -> Base(lower) = <<"m", "a", "k", "e", "f", "i", "l", "e">> \/ HasSuffix(lower, <<".", "m", "k">>)
    [] k = "docker" ->
         HasSuffix(lower, <<"d", "o", "c", "k", "e", "r", "f", "i", "l", "e">>) \/ HasPrefix(Base(lower), <<"d", "o", "c", "k", "e", "r", "f", "i", "l", "e", ".">>)
    [] k = "sql" -> HasSuffix(lower, <<".", "s", "q", "l">>)
    [] k = "decision" ->
         /\ HasSuffix(lower, <<".", "m", "d">>)
         /\ Contains(lower, <<"/", "d", "o", "c", "s", "/", "d", "e", "c", "i", "s", "i", "o", "n", "s", "/">>) \/ Contains(lower, <<"/", "a", "d", "r">>)
    [] k = "env" ->
         \/ HasSuffix(lower, <<".", "e", "n", "v">>) \/ HasSuffix(lower, <<".", "e", "n", "v", ".", "e", "x", "a", "m", "p", "l", "e">>)
         \/ HasSuffix(lower, <<".", "s", "a", "m", "p", "l", "e">>)
    [] k = "license" -> Contains(lower, <<"l", "i", "c", "e", "n", "s", "e">>)
    [] k = "readme" -> Base(lower) = <<"r", "e", "a", "d", "m", "e", ".", "m", "d">>
    [] k = "feature" -> HasSuffix(lower, <<".", "f", "e", "a", "t", "u", "r", "e">>)
    [] k = "coverprofile" ->
         \/ Base(lower) = <<"c", "o", "v", "e", "r", "a", "g", "e", ".", "o", "u", "t">> \/ HasSuffix(lower, <<".", "c", "o", "v", "e", "r", "p", "r", "o", "f", "i", "l", "e">>)
         \/ HasSuffix(lower, <<"c", "o", "v", "e", "r", "a", "g", "e", ".", "t", "x", "t">>)
    [] k = "bddjson" ->
         /\ HasSuffix(lower, <<".", "j", "s", "o", "n">>)
         /\ Contains(lower, <<"c", "u", "c", "u", "m", "b", "e", "r">>) \/ Contains(lower, <<"g", "o", "d", "o", "g">>)
    [] k = "bddxml" ->
         /\ HasSuffix(lower, <<".", "x", "m", "l">>)
         /\ Contains(lower, <<"j", "u", "n", "i", "t">>) \/ Contains(lower, <<"c", "u", "c", "u", "m", "b", "e", "r">>)

\* the cases of the switch in their order
PriorityOrder ==
  <<"gomod", "proto", "make", "docker", "sql", "decision", "env", "license",
    "readme", "feature", "coverprofile", "bddjson", "bddxml">>

\* the kinds a path matches, and the first of them in the order ("none" when
\* there is none)
MatchedKinds(lower) ==
  {i \in 1..Len(PriorityOrder) : Matches(PriorityOrder[i], lower)}

FirstMatch(lower) ==
  IF MatchedKinds(lower) = {} THEN "none"
  ELSE PriorityOrder[CHOOSE i \in MatchedKinds(lower) :
                       \A j \in MatchedKinds(lower) : i <= j]

\* the collection each case writes to
PlaceOf ==
  [gomod |-> "GoModules", proto |-> "Proto", make |-> "MakeTargets",
   docker |-> "Dockerfiles", sql |-> "SQLMigrations", decision |-> "Decisions",
   env |-> "EnvExamples", license |-> "Licenses", readme |-> "Readmes",
   feature |-> "FeatureFiles", coverprofile |-> "Sources", bddjson |-> "Reports",
   bddxml |-> "Reports", none |-> "nowhere"]

\* the collections of Summary s that hold an entry of path p
Places(s, p) ==
  LET full == Join(Root, p)
      holds ==
        [GoModules |-> \E i \in 1..Len(s.GoModules) : s.GoModules[i].Path \in {p, full},
         Proto |-> \E i \in 1..Len(s.Proto) : s.Proto[i].File \in {p, full},
         MakeTargets |->
           /\ Entry(p).ok
           /\ Range(MakeTargetLines(SplitLines(Entry(p).data)))
                \cap Range(s.MakeTargets) # {},
         Dockerfiles |-> p \in Range(s.Dockerfiles),
         SQLMigrations |-> p \in Range(s.SQLMigrations),
         Decisions |-> \E i \in 1..Len(s.Decisions) : s.Decisions[i].File \in {p, full},
         EnvExamples |-> p \in Range(s.EnvExamples),
         Licenses |-> p \in Range(s.Licenses),
         Readmes |-> p \in Range(s.Readmes),
         Sources |-> p \in Range(s.TestCoverage.Sources),
         Reports |-> p \in Range(s.TestCoverage.BDD.Reports)]
  IN  {c \in DOMAIN holds : holds[c]}

\* C11: a processed file has entries in at most one collection, the one of
\* the first case in the priority order that its lower-cased path matches,
\* also when the path matches several cases.
C11_OneExtractorByPriority ==
  \A w \in Workers :
    wpc[w] = "finished" =>
      Places(sum, paths[w]) \subseteq {PlaceOf[FirstMatch(ToLower(paths[w]))]}

\* a file whose path matches two cases was processed and is recorded in the
\* collection of the first of them
C11_Witness ==
  \E w \in Workers :
    /\ wpc[w] = "finished"
    /\ Cardinality(MatchedKinds(ToLower(paths[w]))) >= 2
    /\ Places(sum, paths[w]) = {PlaceOf[FirstMatch(ToLower(paths[w]))]}
    /\ returned = "nil"

(***************************************************************************)
(* C12                                                                     *)
(***************************************************************************)
\* no element occurs twice in sequence s
NoDuplicates(s) == \A i, j \in 1..Len(s) : s[i] = s[j] => i = j

\* the paths of the entries of each collection that holds paths
PathLists(s) ==
  <<[i \in 1..Len(s.GoModules) |-> s.GoModules[i].Path],
    [i \in 1..Len(s.Proto) |-> s.Proto[i].File],
    s.Dockerfiles, s.SQLMigrations,
    [i \in 1..Len(s.Decisions) |-> s.Decisions[i].File],
    s.EnvExamples, s.Licenses, s.Readmes,
    s.TestCoverage.Sources, s.TestCoverage.BDD.Reports>>

\* C12: the walk lists no path twice, and in every state of the scan, the
\* returned Summary included, no collection holds the same path twice.
C12_NoDuplicatePaths ==
  /\ NoDuplicates(paths)
  /\ \A i \in 1..Len(PathLists(sum)) : NoDuplicates(PathLists(sum)[i])

\* a returned Summary with a collection of two paths or more
C12_Witness ==
  /\ returned = "nil"
  /\ \E i \in 1..Len(PathLists(sum)) : Len(PathLists(sum)[i]) >= 2

(***************************************************************************)
(* C13                                                                     *)
(***************************************************************************)
\* the blocks of the profile files of the extraction runs
BlocksOf(p) ==
  CASE p = <<"c", "1", "/", "c", "o", "v", "e", "r", "a", "g", "e", ".", "o", "u", "t">> -> ProfileBlocks.c1
    [] p = <<"c", "2", "/", "c", "o", "v", ".", "c", "o", "v", "e", "r", "p", "r", "o", "f", "i", "l", "e">> -> ProfileBlocks.c2
    [] p = <<"c", "3", "/", "c", "o", "v", "e", "r", "a", "g", "e", ".", "t", "x", "t">> -> ProfileBlocks.c3
    [] p = <<"c", "0", "/", "c", "o", "v", "e", "r", "a", "g", "e", ".", "o", "u", "t">> -> ProfileBlocks.c0

\* the profile files made of blocks, whose tokens are all numbers
BlockProfiles ==
  {<<"c", "1", "/", "c", "o", "v", "e", "r", "a", "g", "e", ".", "o", "u", "t">>, <<"c", "2", "/", "c", "o", "v", ".", "c", "o", "v", "e", "r", "p", "r", "o", "f", "i", "l", "e">>, <<"c", "3", "/", "c", "o", "v", "e", "r", "a", "g", "e", ".", "t", "x", "t">>, <<"c", "0", "/", "c", "o", "v", "e", "r", "a", "g", "e", ".", "o", "u", "t">>}

\* the statements of a sequence of blocks, all of them and the ones hit
RECURSIVE StmtsOf(_, _)
StmtsOf(blocks, hitOnly) ==
  IF blocks = <<>> THEN 0
  ELSE (IF hitOnly /\ Head(blocks).hits = 0 THEN 0 ELSE Head(blocks).stmts)
         + StmtsOf(Tail(blocks), hitOnly)

\* the same over a sequence of profile files
RECURSIVE StmtsOfAll(_, _)
StmtsOfAll(profiles, hitOnly) ==
  IF profiles = <<>> THEN 0
  ELSE StmtsOf(BlocksOf(Head(profiles)), hitOnly) + StmtsOfAll(Tail(profiles), hitOnly)

\* C13: in the returned Summary the total statements are the sum of the
\* statement counts of all data lines of all profiles found, the covered
\* statements the sum over the lines with a hit count above 0, the
\* percentage is covered*100/total when the total is above 0 and zero when
\* it is 0; the profiles "a.go:1.1,2.2 3 1" and "b.go:1.1,2.2 5 0" give 8, 3
\* and 37.5.
C13_CoverageTotals ==
  (returned = "nil" /\ ~sum.TestCoverage.isNil
     /\ Range(sum.TestCoverage.Sources) \subseteq BlockProfiles) =>
    LET tc == sum.TestCoverage
        total == StmtsOfAll(tc.Sources, FALSE)
        covered == StmtsOfAll(tc.Sources, TRUE)
    IN  /\ tc.TotalStmts = total
        /\ tc.CoveredStmts = (IF total > 0 THEN covered ELSE 0)
        /\ IF total > 0
             THEN tc.Percent.num * total = covered * 100 * tc.Percent.den
             ELSE tc.Percent.num = 0
        /\ Range(tc.Sources) = {<<"c", "1", "/", "c", "o", "v", "e", "r", "a", "g", "e", ".", "o", "u", "t">>, <<"c", "2", "/", "c", "o", "v", ".", "c", "o", "v", "e", "r", "p", "r", "o", "f", "i", "l", "e">>} =>
             /\ tc.TotalStmts = 8
             /\ tc.CoveredStmts = 3
             /\ tc.Percent.num * 10 = 375 * tc.Percent.den

\* a returned Summary aggregated over the two profiles of the example, and
\* one over three profiles with numbers of two digits
C13_Witness ==
  /\ returned = "nil"
  /\ Range(sum.TestCoverage.Sources) = {<<"c", "1", "/", "c", "o", "v", "e", "r", "a", "g", "e", ".", "o", "u", "t">>, <<"c", "2", "/", "c", "o", "v", ".", "c", "o", "v", "e", "r", "p", "r", "o", "f", "i", "l", "e">>}
  /\ sum.TestCoverage.TotalStmts = 8
  /\ sum.TestCoverage.Percent = [num |-> 300, den |-> 8]

(***************************************************************************)
(* C14                                                                     *)
(***************************************************************************)
\* C14: in the returned Summary HasGoProfile is true exactly when a
\* coverage-profile file was found, also when the profiles found hold no
\* statement.
C14_FlagIffProfileFound ==
  returned = "nil" =>
    (sum.TestCoverage.HasGoProfile <=> Len(sum.TestCoverage.Sources) > 0)

(***************************************************************************)
(* C15                                                                     *)
(***************************************************************************)
\* the GoModule entries of Summary s for the manifest at path p
ModulesAt(s, p) ==
  {s.GoModules[i] : i \in {j \in 1..Len(s.GoModules) :
                             s.GoModules[j].Path \in {p, Join(Root, p)}}}

\* C15: the manifest "module example.com/app", "require (",
\* "  github.com/x v1.0.0", ")" gives the module example.com/app and the
\* dependency list with exactly github.com/x.
C15_RequireBlock ==
  returned = "nil" =>
    \A gm \in ModulesAt(sum, <<"m", "/", "g", "o", ".", "m", "o", "d">>) :
      /\ gm.Module = <<"e", "x", "a", "m", "p", "l", "e", ".", "c", "o", "m", "/", "a", "p", "p">>
      /\ gm.Requires = <<<<"g", "i", "t", "h", "u", "b", ".", "c", "o", "m", "/", "x">>>>

(***************************************************************************)
(* C16                                                                     *)
(***************************************************************************)
\* the lines of the part of readme p that the extractor reads, each without
\* the white space around it
ReadmeLines(p) ==
  LET lines == SplitLines(ReadHead(p, cfg.MaxFileBytes).text)
  IN  [i \in 1..Len(lines) |-> TrimSpace(lines[i])]

\* a line that starts with the marker of a first-level heading
IsTitleLine(t) == Len(t) >= 2 /\ t[1] = "#" /\ t[2] = " "

\* a line that is not empty and is no heading, list item, blockquote or
\* code fence
IsFreeLine(t) ==
  /\ t # <<>>
  /\ t[1] \notin {"#", ">", Backtick}
  /\ ~(Len(t) >= 2 /\ t[1] \in {"-", "*"} /\ t[2] = " ")

\* the first line of a sequence that is in set S, <<>> when there is none
FirstIn(lines, S) ==
  IF \A i \in 1..Len(lines) : lines[i] \notin S THEN <<>>
  ELSE lines[CHOOSE i \in 1..Len(lines) :
               lines[i] \in S /\ \A j \in 1..(i - 1) : lines[j] \notin S]

\* a stored field against the text it was taken from: the text itself, or
\* its start when the text is longer than the ceiling n of the field
StoresText(field, text, n) ==
  IF Len(text) <= n THEN field = text ELSE Take(field, n) = Take(text, n)

C17_FieldCeilings ==
  \A p \in DOMAIN sum.ReadmeSummaries :
    LET rs == sum.ReadmeSummaries[p]
    IN  /\ Len(rs.Title) <= TitleLimit
        /\ Len(rs.FirstPara) <= maxLen
        /\ Len(rs.Objective) <= maxLen
        /\ \A f \in {rs.Title, rs.FirstPara, rs.Objective} :
             \A i \in 1..Len(f) : f[i] \notin {"\n", "\r"}

(***************************************************************************)
(* C18                                                                     *)
(***************************************************************************)
\* the file at path p cut at the byte cap of the configuration
CappedLines(p) ==
  LET d == Entry(p).data
  IN  SplitLines(Take(d, IF Len(d) < cfg.MaxFileBytes THEN Len(d) ELSE cfg.MaxFileBytes))

\* the totals of the cut profiles
RECURSIVE CappedTotal(_)
CappedTotal(profiles) ==
  IF profiles = <<>> THEN 0
  ELSE CoverLines(CappedLines(Head(profiles))).total + CappedTotal(Tail(profiles))

\* C18: what the extractors put in the returned Summary is what they find in
\* the first MaxFileBytes bytes of each file: the module and the
\* dependencies of a manifest, and the statement total of the profiles.
C18_ExtractorsReadHeadOnly ==
  returned = "nil" =>
    /\ \A i \in 1..Len(sum.GoModules) :
         \A p \in Range(paths) :
           sum.GoModules[i].Path \in {p, Join(Root, p)} =>
             sum.GoModules[i] =
               GoModLines(CappedLines(p),
                          [NoGoModule EXCEPT !.Path = sum.GoModules[i].Path])
    /\ sum.TestCoverage.TotalStmts = CappedTotal(sum.TestCoverage.Sources)

(***************************************************************************)
(* C19                                                                     *)
(***************************************************************************)
\* the kinds whose extractor reads the file
ReadingKinds == {"gomod", "proto", "make", "decision", "readme"}

\* C19: a file of a kind whose extractor reads it and that cannot be read
\* has no entry in any collection once its worker has finished; Scan goes on
\* with the other files and returns a nil error.
C19_UnreadableContributesNothing ==
  /\ returned \in {"none", "nil"}
  /\ \A w \in Workers :
       (/\ wpc[w] = "finished"
        /\ ~Entry(paths[w]).ok
        /\ KindOf(ToLower(paths[w])) \in ReadingKinds) =>
         Places(sum, paths[w]) = {}


(***************************************************************************)
(* C20                                                                     *)
(***************************************************************************)
\* the directories above a path
Ancestors(f) == DirsOf({f})

\* the path, or a directory above it, is matched by the ignore-file rules
IgnoredPath(f) ==
  GitIgnoreMatch(ignores, f) \/ \E dir \in Ancestors(f) : GitIgnoreMatch(ignores, dir)

\* the file, or a directory above it, matches the default+user exclude list
ExcludedPath(f) ==
  LET excl == ExcludeGlobs(cfg.ExcludeGlobsCSV)
  IN  MatchAny(excl, f) \/ \E dir \in Ancestors(f) : MatchAny(excl, dir \o <<"/">>)

\* the file matches an include glob
IncludedPath(f) == MatchAny(splitCSV(cfg.IncludeGlobsCSV), f)

\* the candidate list as a set
Candidates == {paths[i] : i \in 1..Len(paths)}

\* C20: after the walk, a file matched by the ignore-file rules (itself or
\* through a directory above it) is no candidate; any other file that matches
\* the default+user exclude list is a candidate exactly when it also matches
\* an include glob; a file that matches neither list is a candidate
C20_ExclusionOrder ==
  pc # "walk" =>
    \A f \in files :
      IF IgnoredPath(f) THEN f \notin Candidates
      ELSE IF ExcludedPath(f) THEN (f \in Candidates <=> IncludedPath(f))
      ELSE f \in Candidates

(***************************************************************************)
(* C21                                                                     *)
(***************************************************************************)
\* some glob of the list matches the path or the base name of the path
PathOrBaseMatches(globs, path) ==
  \E i \in 1..Len(globs) :
    Match(globs[i], path) \/ Match(globs[i], Base(path))

\* C21: for every file of the tree and both glob lists of the run, MatchAny
\* is true exactly when some glob matches the path or its base name; and
\* after the walk a file that is not ignored, whose path or base name matches
\* the exclude list and which no include glob matches, is no candidate
C21_MatchesPathOrBaseName ==
  \A f \in files :
    LET excl == ExcludeGlobs(cfg.ExcludeGlobsCSV)
        incl == splitCSV(cfg.IncludeGlobsCSV)
    IN  /\ MatchAny(excl, f) <=> PathOrBaseMatches(excl, f)
        /\ MatchAny(incl, f) <=> PathOrBaseMatches(incl, f)
        /\ (pc # "walk" /\ PathOrBaseMatches(excl, f) /\ ~PathOrBaseMatches(incl, f))
              => f \notin Candidates

(***************************************************************************)
(* C22                                                                     *)
(***************************************************************************)
\* buildTree has run
TreeBuilt == pc \in {"sort", "done"}

\* the number of spaces a line starts with
LeadingSpaces(line) ==
  IF \A i \in 1..Len(line) : line[i] = " " THEN Len(line)
  ELSE (CHOOSE i \in 1..Len(line) :
          line[i] # " " /\ \A j \in 1..(i - 1) : line[j] = " ") - 1

\* path p lies below directory d, the root being the empty path
Below(d, p) == p # d /\ (d = <<>> \/ HasPrefix(p, d \o <<"/">>))

DefaultTreeDepth == 3

\* the depth limit of the tree of the run
DepthLimit == IF cfg.TreeDepth > 0 THEN cfg.TreeDepth ELSE DefaultTreeDepth

\* the names along a path
RECURSIVE Names(_)
Names(p) == IF p = <<>> THEN {} ELSE {Base(p)} \cup Names(Parent(p))

\* the number of names along a path
RECURSIVE Level(_)
Level(p) == IF p = <<>> THEN 0 ELSE 1 + Level(Parent(p))

\* a hidden name other than the allowed one
Hidden(name) == HasPrefix(name, <<".">>) /\ name # <<".", "g", "i", "t", "h", "u", "b">>

\* a directory that nothing prunes: no name along it is hidden, the ignore
\* rules and the exclude list match neither it nor a directory above it
Surviving(dir) ==
  /\ \A name \in Names(dir) : ~Hidden(name)
  /\ \A d \in DirsOf({dir \o <<"/">>}) :
        /\ ~GitIgnoreMatch(ignores, d)
        /\ ~MatchAny(ExcludeGlobs(cfg.ExcludeGlobsCSV), d \o <<"/">>)

\* C23: no line of the tree is indented more than DepthLimit levels; a
\* surviving directory at level DepthLimit has a line, which no line of a
\* child follows; no line other than the root's names a hidden entry
C23_TreeIsDepthLimited ==
  TreeBuilt =>
    /\ \A i \in 1..Len(sum.Tree) : LeadingSpaces(sum.Tree[i]) <= 2 * DepthLimit
    /\ \A dir \in DirsOf(files) :
          (Level(dir) = DepthLimit /\ Surviving(dir)) =>
            /\ \E i \in 1..Len(treeNodes) : treeNodes[i].rel = dir
            /\ \A i \in 1..Len(treeNodes) : ~Below(dir, treeNodes[i].rel)
    /\ \A i \in 2..Len(sum.Tree) :
          ~Hidden(SubSeq(sum.Tree[i], LeadingSpaces(sum.Tree[i]) + 1, Len(sum.Tree[i])))

\* a tree cut at a directory that has an entry, with .github in it and a
\* hidden entry of the scanned tree left out
C23_Witness ==
  /\ TreeBuilt
  /\ \E dir \in DirsOf(files) :
        /\ Level(dir) = DepthLimit
        /\ \E i \in 1..Len(treeNodes) : treeNodes[i].rel = dir
        /\ \E f \in files : Below(dir, f)
  /\ \E i \in 1..Len(treeNodes) : treeNodes[i].name = <<".", "g", "i", "t", "h", "u", "b">>
  /\ \E f \in files : \E name \in Names(f) : Hidden(name)

(***************************************************************************)
(* C24                                                                     *)
(***************************************************************************)
\* the value of a token that is a number, 0 for any other token
NumberOrZero(tok) ==
  IF tok # <<>> /\ \A i \in 1..Len(tok) : IsDigit(tok[i]) THEN atoiSafe(tok) ELSE 0

\* the totals of the lines of a profile when a token that is no number
\* counts as 0
RECURSIVE StrictLines(_)
StrictLines(lines) ==
  IF lines = <<>> THEN [total |-> 0, covered |-> 0]
  ELSE
    LET ln == TrimSpace(Head(lines))
        rest == StrictLines(Tail(lines))
        parts == Fields(ln)
    IN  IF ln = <<>> \/ HasPrefix(ln, <<"m", "o", "d", "e", ":">>) \/ Len(parts) < 3 THEN rest
        ELSE [total |-> rest.total + NumberOrZero(parts[2]),
              covered |-> rest.covered +
                (IF NumberOrZero(parts[3]) > 0 THEN NumberOrZero(parts[2]) ELSE 0)]

\* the same over a sequence of profile files
RECURSIVE StrictTotals(_)
StrictTotals(profiles) ==
  IF profiles = <<>> THEN [total |-> 0, covered |-> 0]
  ELSE LET here == StrictLines(SplitLines(Entry(Head(profiles)).data))
           rest == StrictTotals(Tail(profiles))
       IN  [total |-> here.total + rest.total, covered |-> here.covered + rest.covered]

\* C24: the totals of the returned Summary are those of the data lines of
\* the profiles found, every line counted, with a statement count or a hit
\* count that is not a number (digits followed by other characters, a sign)
\* taken as 0
C24_MalformedTokenIsZero ==
  (returned = "nil" /\ ~sum.TestCoverage.isNil) =>
    LET tc == sum.TestCoverage
        strict == StrictTotals(tc.Sources)
    IN  /\ tc.TotalStmts = strict.total
        /\ tc.CoveredStmts = strict.covered

(***************************************************************************)
(* C25                                                                     *)
(***************************************************************************)
\* a Markdown file under a docs/decisions directory, at the root or below
\* it, or on an ADR path
DecisionPath(lower) ==
  /\ HasSuffix(lower, <<".", "m", "d">>)
  /\ \/ HasPrefix(lower, <<"d", "o", "c", "s", "/", "d", "e", "c", "i", "s", "i", "o", "n", "s", "/">>)
     \/ Contains(lower, <<"/", "d", "o", "c", "s", "/", "d", "e", "c", "i", "s", "i", "o", "n", "s", "/">>)
     \/ HasPrefix(lower, <<"a", "d", "r">>)
     \/ Contains(lower, <<"/", "a", "d", "r">>)

\* the cases of the switch before the one of the decision records
HigherKinds == {"gomod", "proto", "make", "docker", "sql"}

\* C25: a processed, readable Markdown file under a docs/decisions directory
\* (also one directly under the scan root) or on an ADR path, which matches
\* no case of higher priority, has exactly one entry in Decisions
C25_DecisionRecordsClassified ==
  \A w \in Workers :
    LET p == paths[w]
        lower == ToLower(p)
    IN  (/\ wpc[w] = "finished"
         /\ Entry(p).ok
         /\ DecisionPath(lower)
         /\ \A k \in HigherKinds : ~Matches(k, lower))
        => Cardinality({i \in 1..Len(sum.Decisions) :
                          sum.Decisions[i].File \in {p, Join(Root, p)}}) = 1

(***************************************************************************)
(* C26                                                                     *)
(***************************************************************************)
\* the lines of the head of a file, trimmed
TrimmedHead(p) ==
  LET lines == SplitLines(ReadHead(p, cfg.MaxFileBytes).text)
  IN  [i \in 1..Len(lines) |-> TrimSpace(lines[i])]

\* the first index of a sequence of lines, from index lo on, whose line
\* satisfies the test; 0 when there is none
FirstFrom(lines, lo, Test(_)) ==
  LET hits == {i \in lo..Len(lines) : Test(lines[i])}
  IN  IF hits = {} THEN 0 ELSE CHOOSE i \in hits : \A j \in hits : i <= j

IsDecisionTitle(ln) == HasPrefix(ln, <<"#", " ">>)

IsSummaryLine(ln) == ln # <<>> /\ ~HasPrefix(ln, <<"#">>)

\* C26: the Title of a decision record is the text after "# " of the first
\* line of the head that starts with "# ", empty when there is none; the
\* Summary of a record with a title is the first line after the title line
\* that is neither empty nor a heading, empty when there is none, and never a
\* line that precedes the title
C26_DecisionTitleAndSummary ==
  \A w \in Workers :
    LET p == paths[w]
        lines == TrimmedHead(p)
        t == FirstFrom(lines, 1, IsDecisionTitle)
        s == IF t = 0 THEN 0 ELSE FirstFrom(lines, t + 1, IsSummaryLine)
    IN  \A i \in 1..Len(sum.Decisions) :
          (wpc[w] = "finished" /\ sum.Decisions[i].File \in {p, Join(Root, p)}) =>
            /\ sum.Decisions[i].Title =
                 (IF t = 0 THEN <<>> ELSE TrimPrefix(lines[t], <<"#", " ">>))
            /\ t # 0 =>
                 sum.Decisions[i].Summary = (IF s = 0 THEN <<>> ELSE lines[s])

(***************************************************************************)
(* C27                                                                     *)
(***************************************************************************)
\* C27: BuildArtifacts leaves the Summary as it was given (the JSON of a
\* call is the Summary it was given), so after every call the Summary still
\* equals that one, with the Reports of more than ReportsLimit entries and
\* the RPCs of more than RPCsLimit entries too, and every call gives the
\* output of the first
C27_RenderLeavesReportUnchanged ==
  \A i \in 1..Len(artifacts) :
    /\ artifacts[i].json = sum
    /\ artifacts[i] = artifacts[1]

(***************************************************************************)
(* C28                                                                     *)
(***************************************************************************)
\* the first n bytes of a file, all of it when it is shorter and none when
\* n is zero or less
FirstBytes(path, n) ==
  Take(Entry(path).data, IF n <= 0 THEN 0 ELSE Min(Len(Entry(path).data), n))

\* C28: for every file that can be opened, with cap cfg.MaxFileBytes:
\* ReadHead of a file that reads to its end gives its first min(size, cap)
\* bytes and no error, empty text for a cap of zero or less; ReadHead of a
\* file whose reading fails after some bytes, before the cap is reached,
\* gives the bytes before the failure and the error; the loop makes at most
\* one read per byte and one more
C28_ReadHeadReturnsHead ==
  \A f \in files :
    LET cap == cfg.MaxFileBytes
        r == ReadHead(f, cap)
    IN  Entry(f).ok =>
          /\ ReadErrAt(f) < 0 => (~r.err /\ r.text = FirstBytes(f, cap))
          /\ (ReadErrAt(f) > 0 /\ ReadErrAt(f) < Min(Len(Entry(f).data), cap)) =>
                (r.err /\ r.text = FirstBytes(f, ReadErrAt(f)))
          /\ r.reads <= Len(FirstBytes(f, cap)) + 1

\* a scan that has read a file longer than the cap and a file whose reading
\* failed after some bytes
C28_Witness ==
  /\ returned = "nil"
  /\ cfg.MaxFileBytes > 0
  /\ \E v, w \in Workers :
        /\ wpc[v] = "finished" /\ wpc[w] = "finished"
        /\ Entry(paths[v]).ok /\ ReadErrAt(paths[v]) < 0
        /\ Len(Entry(paths[v]).data) > cfg.MaxFileBytes
        /\ ReadErrAt(paths[w]) > 0
        /\ ReadErrAt(paths[w]) < Min(Len(Entry(paths[w]).data), cfg.MaxFileBytes)
        /\ ReadHead(paths[w], cfg.MaxFileBytes).text # <<>>

(***************************************************************************)
(* C29                                                                     *)
(***************************************************************************)
\* the workers that have run to their end
Finished == {w \in Workers : wpc[w] = "finished"}

\* C29: at most one candidate is dispatched after the cancellation signal
\* is raised, and none after that one; the candidates dispatched are at all
\* times the first ones of the candidate list, in its order, and when Scan
\* returns they are exactly the processed ones
C29_ProcessedIsPrefix ==
  /\ [](late <= 1)
  /\ [][(late = 1) => (Dispatched' = Dispatched)]_vars
  /\ [](Dispatched = 1..Cardinality(Dispatched))
  /\ [](returned = "nil" => Finished = Dispatched)

\* a scan cancelled while the loop waited for a slot: the candidate it
\* waited with was processed, the ones after it were not
C29_Witness ==
  /\ returned = "nil"
  /\ late = 1
  /\ Finished = 1..2
  /\ Len(paths) > 2
=============================================================================
